---- MODULE Spec2Model ----
(***************************************************************************)
(* Model of the response cache of alexaandru/eol (cache.go, version.go).   *)
(*                                                                         *)
(* Strings are sequences of letters.  A letter is a one-element piece of   *)
(* text: the separators "/", "-", "|", ".", the digits, and whole words    *)
(* ("products", "go", ...) that the code never looks inside.  Every string *)
(* operation of the code (TrimPrefix, ReplaceAll, HasPrefix, Contains,     *)
(* HasSuffix, Join, concatenation, the version regular expressions) is     *)
(* computed on these sequences letter by letter.                           *)
(*                                                                         *)
(* JSON documents are tagged values: [str |-> s], [num |-> n],             *)
(* [null |-> TRUE], [arr |-> <<...>>], [obj |-> f] with f a function from  *)
(* key names to JSON documents (a Go map[string]any).                      *)
(***************************************************************************)
EXTENDS Integers, Sequences, FiniteSets, TLC

VARIABLES
    files,      \* the cache directory: file name -> file
    dirExists,  \* whether the cache directory exists on disk
    now,        \* wall clock, in hours
    ticks,      \* number of clock advances so far
    nsets,      \* number of Set calls so far
    enabled,    \* CacheManager.enabled
    defaultTTL, \* CacheManager.defaultTTL, in hours
    baseDir,    \* CacheManager.baseDir, a path (sequence of letters)
    baseURL,    \* CacheManager.baseURL
    last        \* the last operation: its arguments, its time and what it returned

vars == <<files, dirExists, now, ticks, nsets, enabled, defaultTTL, baseDir, baseURL, last>>

config == <<enabled, defaultTTL, baseDir, baseURL>>

----------------------------------------------------------------------------
(* Bounds *)

MaxSets == 2

MaxTicks == 2

----------------------------------------------------------------------------
(* Strings *)

RECURSIVE ReplaceAll(_, _, _)
ReplaceAll(s, old, new) ==
    IF s = <<>> THEN <<>>
    ELSE <<IF Head(s) = old THEN new ELSE Head(s)>> \o ReplaceAll(Tail(s), old, new)

HasPrefix(s, prefix) ==
    /\ Len(s) >= Len(prefix)
    /\ SubSeq(s, 1, Len(prefix)) = prefix

HasSuffix(s, suffix) ==
    /\ Len(s) >= Len(suffix)
    /\ SubSeq(s, Len(s) - Len(suffix) + 1, Len(s)) = suffix

TrimPrefix(s, prefix) ==
    IF HasPrefix(s, prefix) THEN SubSeq(s, Len(prefix) + 1, Len(s)) ELSE s

Contains(s, sub) ==
    \E i \in 1..(Len(s) - Len(sub) + 1) : SubSeq(s, i, i + Len(sub) - 1) = sub

RECURSIVE Join(_, _)
Join(elems, sep) ==
    IF elems = <<>> THEN <<>>
    ELSE IF Len(elems) = 1 THEN elems[1]
    ELSE elems[1] \o sep \o Join(Tail(elems), sep)

\* filepath.Base for a cleaned path: the letters after the last "/".
RECURSIVE Base(_)
Base(path) ==
    IF \A i \in 1..Len(path) : path[i] # "/" THEN path
    ELSE Base(Tail(path))

----------------------------------------------------------------------------
(* JSON documents *)

JStr(s) == [str |-> s]
JNum(n) == [num |-> n]
JNull == [null |-> TRUE]
JArr(a) == [arr |-> a]
JObj(o) == [obj |-> o]

IsStr(v) == DOMAIN v = {"str"}
IsArr(v) == DOMAIN v = {"arr"}
IsObj(v) == DOMAIN v = {"obj"}

\* m[k] on a Go map[string]any held in a JSON object: nil when k is absent.
Field(v, k) == IF IsObj(v) /\ k \in DOMAIN v.obj THEN v.obj[k] ELSE JNull

HasField(v, k) == IsObj(v) /\ k \in DOMAIN v.obj

----------------------------------------------------------------------------
(* version.go *)

Digit == {"0", "1", "2", "3", "4", "5", "6", "7", "8", "9"}

\* Letters matched by [0-9A-Za-z] (whole words of such characters included).
AlnumWords == {"v", "rc", "beta", "latest", "lts"}

IsDigits(s) == Len(s) >= 1 /\ \A i \in 1..Len(s) : s[i] \in Digit

\* [0-9A-Za-z\-\.]+
IsIdentChars(s) ==
    Len(s) >= 1 /\ \A i \in 1..Len(s) : s[i] \in Digit \cup AlnumWords \cup {"-", "."}

RECURSIVE TrimLeft(_)
TrimLeft(s) == IF s # <<>> /\ Head(s) = " " THEN TrimLeft(Tail(s)) ELSE s

RECURSIVE TrimRight(_)
TrimRight(s) ==
    IF s # <<>> /\ s[Len(s)] = " " THEN TrimRight(SubSeq(s, 1, Len(s) - 1)) ELSE s

TrimSpace(s) == TrimRight(TrimLeft(s))

\* majorMinorPattern: ^(\d+)\.(\d+)$
majorMinorPattern(s) ==
    \E i \in 1..Len(s) :
        /\ s[i] = "."
        /\ IsDigits(SubSeq(s, 1, i - 1))
        /\ IsDigits(SubSeq(s, i + 1, Len(s)))

\* Mutant: anything may follow the patch number.
semverSuffixAny(r) == TRUE

\* (?:-[0-9A-Za-z\-\.]+)?(?:\+[0-9A-Za-z\-\.]+)?$
semverSuffix(r) ==
    \/ r = <<>>
    \/ /\ Len(r) >= 2
       /\ r[1] = "+"
       /\ IsIdentChars(SubSeq(r, 2, Len(r)))
    \/ /\ Len(r) >= 2
       /\ r[1] = "-"
       /\ \E m \in 2..Len(r) :
              /\ IsIdentChars(SubSeq(r, 2, m))
              /\ \/ m = Len(r)
                 \/ /\ m + 2 <= Len(r)
                    /\ r[m + 1] = "+"
                    /\ IsIdentChars(SubSeq(r, m + 2, Len(r)))

\* The positions <<i, j>> of the two dots of a match of semverPattern:
\* ^(\d+)\.(\d+)\.(\d+)(?:-[0-9A-Za-z\-\.]+)?(?:\+[0-9A-Za-z\-\.]+)?$
semverDots(s) ==
    {d \in (1..Len(s)) \X (1..Len(s)) :
        /\ d[1] < d[2]
        /\ s[d[1]] = "."
        /\ s[d[2]] = "."
        /\ IsDigits(SubSeq(s, 1, d[1] - 1))
        /\ IsDigits(SubSeq(s, d[1] + 1, d[2] - 1))
        /\ \E k \in (d[2] + 1)..Len(s) :
              /\ IsDigits(SubSeq(s, d[2] + 1, k))
              /\ semverSuffix(SubSeq(s, k + 1, Len(s)))}

semverPattern(s) == semverDots(s) # {}

normalizeVersion(version) ==
    LET ver == TrimSpace(version) IN
    IF majorMinorPattern(ver) THEN ver
    ELSE IF semverPattern(ver)
         THEN LET d == CHOOSE d \in semverDots(ver) : TRUE
              IN SubSeq(ver, 1, d[1] - 1) \o <<".">> \o SubSeq(ver, d[1] + 1, d[2] - 1)
         ELSE ver

----------------------------------------------------------------------------
(* Cache keys *)

cacheExt == <<".", "eol_cache", ".", "json">>

\* 24 * time.Hour, in hours
fullTTL == 24

\* The letters of the model, in a fixed order; a letter's code is its index.
Alphabet ==
    <<"/", "-", "|", ".", " ", "+",
      "0", "1", "2", "3", "4", "5", "6", "7", "8", "9",
      "products", "full", "releases", "latest", "categories", "category",
      "tags", "tag", "identifiers", "identifier", "cpe", "index",
      "go", "python", "redis", "lang", "db", "language", "scripting",
      "test", "endpoint", "v", "rc", "beta", "lts">>

LetterCode(l) == CHOOSE i \in 1..Len(Alphabet) : Alphabet[i] = l

\* Stand-in for md5.Sum: a deterministic 32-bit digest of the letters of s,
\* held as two 16-bit halves <<hi, lo>> (the code keeps 8 hexadecimal digits,
\* that is 32 bits, of the MD5 sum).
RECURSIVE md5Sum(_, _)
md5Sum(s, h) ==
    IF s = <<>> THEN h
    ELSE LET lo == h[2] * 257 + LetterCode(Head(s))
             hi == h[1] * 257 + (lo \div 65536)
         IN  md5Sum(Tail(s), <<hi % 65536, lo % 65536>>)

\* fmt.Sprintf("%x", md5.Sum(paramStr))[:8]: two letters of four digits each.
hash8(paramStr) ==
    LET h == md5Sum(paramStr, <<0, 1>>) IN <<ToString(h[1]), ToString(h[2])>>

\* Mutant: only the spelling with the leading slash is recognised.
isFullEndpointSlashOnly(endpoint) == endpoint = <<"/", "products", "/", "full">>

isFullEndpoint(endpoint) ==
    \/ endpoint = <<"/", "products", "/", "full">>
    \/ endpoint = <<"products", "/", "full">>

generateCacheKey(endpoint, params) ==
    LET trimmed == TrimPrefix(endpoint, <<"/">>)
        replaced == ReplaceAll(trimmed, "/", "-")
        ep == IF replaced = <<>> THEN <<"index">> ELSE replaced
    IN  IF Len(params) = 0 THEN ep \o cacheExt
        ELSE ep \o <<"-">> \o hash8(Join(params, <<"|">>)) \o cacheExt

MustUseCache(endpoint) == isFullEndpoint(endpoint)

----------------------------------------------------------------------------
(* Extraction strategies.  An extractor returns [data, found]; NoData is   *)
(* the nil json.RawMessage.                                                *)

NoData == [nil |-> TRUE]

NotExtracted == [data |-> NoData, found |-> FALSE]

Extracted(doc) == [data |-> doc, found |-> TRUE]

\* fmt.Sprintf("%s", v) for a string or an absent (nil) value.
Sprintf_s(v) ==
    IF IsStr(v) THEN v.str
    ELSE IF v = JNull THEN <<"%!s(<nil>)">>
    ELSE <<"%!s(?)">>

\* Mutant: the URI is built from the default base URL.
summaryDefaultURL(productMap) ==
    LET base == [name |-> Field(productMap, "name"),
                 label |-> Field(productMap, "label"),
                 category |-> Field(productMap, "category"),
                 uri |-> JStr(<<"https://endoflife.date/api/v1">> \o <<"/", "products", "/">>
                                \o Sprintf_s(Field(productMap, "name")))]
        aliases == IF HasField(productMap, "aliases")
                   THEN "aliases" :> Field(productMap, "aliases") ELSE <<>>
        tags == IF HasField(productMap, "tags")
                THEN "tags" :> Field(productMap, "tags") ELSE <<>>
    IN  JObj(tags @@ aliases @@ base)

\* The summary map built for one product of the catalog.
summary(productMap) ==
    LET base == [name |-> Field(productMap, "name"),
                 label |-> Field(productMap, "label"),
                 category |-> Field(productMap, "category"),
                 uri |-> JStr(baseURL \o <<"/", "products", "/">>
                                \o Sprintf_s(Field(productMap, "name")))]
        aliases == IF HasField(productMap, "aliases")
                   THEN "aliases" :> Field(productMap, "aliases") ELSE <<>>
        tags == IF HasField(productMap, "tags")
                THEN "tags" :> Field(productMap, "tags") ELSE <<>>
    IN  JObj(tags @@ aliases @@ base)

\* Mutant: the summaries come out in reverse catalog order.
summariesReversed(productMaps) ==
    [i \in 1..Len(productMaps) |-> summary(productMaps[Len(productMaps) + 1 - i])]

summaries(productMaps) == [i \in 1..Len(productMaps) |-> summary(productMaps[i])]

listResponse(fullResponse, items) ==
    JObj([schema_version |-> Field(fullResponse, "schema_version"),
          total |-> JNum(Len(items)),
          result |-> JArr(items)])

\* Mutant: the exact entry never answers.
extractExactNever(data) == NotExtracted

extractExact(data) == Extracted(data)

extractProductsFromFull(data) ==
    IF ~IsObj(data) THEN NotExtracted
    ELSE IF ~IsArr(Field(data, "result")) THEN NotExtracted
    ELSE Extracted(listResponse(data, summaries(SelectSeq(Field(data, "result").arr, IsObj))))

nameIs(m, wanted) == IsObj(m) /\ IsStr(Field(m, "name")) /\ Field(m, "name").str = wanted

extractProductFromFull(data, product) ==
    IF ~IsObj(data) THEN NotExtracted
    ELSE IF ~IsArr(Field(data, "result")) THEN NotExtracted
    ELSE LET matching == SelectSeq(Field(data, "result").arr, LAMBDA p : nameIs(p, product))
         IN  IF matching = <<>> THEN NotExtracted
             ELSE Extracted(JObj([schema_version |-> Field(data, "schema_version"),
                                  last_modified |-> JStr(<<"2025-01-11T00:00:00Z">>),
                                  result |-> matching[1]]))

\* Mutant: only the requested string itself matches.
releaseMatchesExactOnly(r, release) ==
    /\ IsObj(r)
    /\ IsStr(Field(r, "name"))
    /\ Field(r, "name").str = release

releaseMatches(r, release) ==
    /\ IsObj(r)
    /\ IsStr(Field(r, "name"))
    /\ \/ Field(r, "name").str = release
       \/ Field(r, "name").str = normalizeVersion(release)

\* The loop over a release list: the first element, in list order, whose
\* name is the requested string or its normalization.
releaseFromList(response, releases, release) ==
    LET matching == SelectSeq(releases, LAMBDA r : releaseMatches(r, release))
    IN  IF matching = <<>> THEN NotExtracted
        ELSE Extracted(JObj([schema_version |-> Field(response, "schema_version"),
                             result |-> matching[1]]))

extractReleaseFromProduct(data, release) ==
    IF ~IsObj(data) THEN NotExtracted
    ELSE IF ~IsObj(Field(data, "result")) THEN NotExtracted
    ELSE IF ~IsArr(Field(Field(data, "result"), "releases")) THEN NotExtracted
    ELSE releaseFromList(data, Field(Field(data, "result"), "releases").arr, release)

extractReleaseFromFull(data, product, release) ==
    IF ~IsObj(data) THEN NotExtracted
    ELSE IF ~IsArr(Field(data, "result")) THEN NotExtracted
    ELSE \* products that do not match, or whose releases are not a list, are skipped
         LET candidates == SelectSeq(Field(data, "result").arr,
                               LAMBDA p : nameIs(p, product) /\ IsArr(Field(p, "releases")))
         IN  IF candidates = <<>> THEN NotExtracted
             ELSE releaseFromList(data, Field(candidates[1], "releases").arr, release)

\* Mutant: every name the iteration order knows is listed.
rangeMapAll(keySet, order) == order

\* The keys of a Go map, listed in the order the map iteration happens to
\* produce them: the order of their first occurrence in `order`.
rangeMap(keySet, order) == SelectSeq(order, LAMBDA k : k \in keySet)

uriItems(names, segment) ==
    [i \in 1..Len(names) |->
        JObj([name |-> JStr(names[i]),
              uri |-> JStr(baseURL \o <<"/", segment, "/">> \o names[i])])]

extractCategoriesFromFull(data, order) ==
    IF ~IsObj(data) THEN NotExtracted
    ELSE IF ~IsArr(Field(data, "result")) THEN NotExtracted
    ELSE LET result == Field(data, "result").arr
             categorySet == {Field(result[i], "category").str :
                               i \in {j \in 1..Len(result) :
                                         /\ IsObj(result[j])
                                         /\ IsStr(Field(result[j], "category"))
                                         /\ Field(result[j], "category").str # <<>>}}
         IN  Extracted(listResponse(data, uriItems(rangeMap(categorySet, order), "categories")))

extractProductsByCategoryFromFull(data, category) ==
    IF ~IsObj(data) THEN NotExtracted
    ELSE IF ~IsArr(Field(data, "result")) THEN NotExtracted
    ELSE LET selected == SelectSeq(Field(data, "result").arr,
                             LAMBDA p : /\ IsObj(p)
                                        /\ IsStr(Field(p, "category"))
                                        /\ Field(p, "category").str = category)
         IN  Extracted(listResponse(data, summaries(selected)))

\* The non-empty strings in the "tags" list of a product.
tagsOf(productMap) ==
    IF IsObj(productMap) /\ IsArr(Field(productMap, "tags"))
    THEN LET tags == Field(productMap, "tags").arr
         IN  {tags[i].str : i \in {j \in 1..Len(tags) : IsStr(tags[j]) /\ tags[j].str # <<>>}}
    ELSE {}

extractTagsFromFull(data, order) ==
    IF ~IsObj(data) THEN NotExtracted
    ELSE IF ~IsArr(Field(data, "result")) THEN NotExtracted
    ELSE LET result == Field(data, "result").arr
             tagSet == UNION {tagsOf(result[i]) : i \in 1..Len(result)}
         IN  Extracted(listResponse(data, uriItems(rangeMap(tagSet, order), "tags")))

hasTag(productMap, tag) ==
    /\ IsObj(productMap)
    /\ IsArr(Field(productMap, "tags"))
    /\ \E i \in 1..Len(Field(productMap, "tags").arr) :
          /\ IsStr(Field(productMap, "tags").arr[i])
          /\ Field(productMap, "tags").arr[i].str = tag

extractProductsByTagFromFull(data, tag) ==
    IF ~IsObj(data) THEN NotExtracted
    ELSE IF ~IsArr(Field(data, "result")) THEN NotExtracted
    ELSE Extracted(listResponse(data,
            summaries(SelectSeq(Field(data, "result").arr, LAMBDA p : hasTag(p, tag)))))

----------------------------------------------------------------------------
(* Strategy lists *)

Strategy(key, extractFunc, args) == [CacheKey |-> key, ExtractFunc |-> extractFunc, args |-> args]

productsPrefix == <<"/", "products", "/">>

releasesInfix == <<"/", "releases", "/">>

fullKey == generateCacheKey(<<"/", "products", "/", "full">>, <<>>)

buildCacheStrategies(endpoint, params) ==
    IF endpoint = <<"/", "products">> THEN
        <<Strategy(generateCacheKey(<<"/", "products">>, <<>>), "extractExact", <<>>),
          Strategy(fullKey, "extractProductsFromFull", <<>>)>>
    ELSE IF /\ HasPrefix(endpoint, productsPrefix)
            /\ Len(params) >= 1
            /\ ~Contains(endpoint, releasesInfix) THEN
        LET p == params[1] IN
        <<Strategy(generateCacheKey(productsPrefix \o p, <<p>>), "extractExact", <<>>),
          Strategy(fullKey, "extractProductFromFull", <<p>>)>>
    ELSE IF /\ HasPrefix(endpoint, productsPrefix)
            /\ Contains(endpoint, releasesInfix)
            /\ Len(params) >= 2 THEN
        LET p == params[1]
            rel == params[2]
        IN
        <<Strategy(generateCacheKey(productsPrefix \o p \o releasesInfix \o rel, <<p, rel>>),
                   "extractExact", <<>>),
          Strategy(generateCacheKey(productsPrefix \o p, <<p>>),
                   "extractReleaseFromProduct", <<rel>>),
          Strategy(fullKey, "extractReleaseFromFull", <<p, rel>>)>>
    ELSE IF endpoint = <<"/", "categories">> THEN
        <<Strategy(generateCacheKey(<<"/", "categories">>, <<>>), "extractExact", <<>>),
          Strategy(fullKey, "extractCategoriesFromFull", <<>>)>>
    ELSE IF HasPrefix(endpoint, <<"/", "categories", "/">>) /\ Len(params) >= 2 THEN
        LET cat == params[2] IN
        <<Strategy(generateCacheKey(<<"/", "categories", "/">> \o cat, <<<<"category">>, cat>>),
                   "extractExact", <<>>),
          Strategy(fullKey, "extractProductsByCategoryFromFull", <<cat>>)>>
    ELSE IF endpoint = <<"/", "tags">> THEN
        <<Strategy(generateCacheKey(<<"/", "tags">>, <<>>), "extractExact", <<>>),
          Strategy(fullKey, "extractTagsFromFull", <<>>)>>
    ELSE IF HasPrefix(endpoint, <<"/", "tags", "/">>) /\ Len(params) >= 2 THEN
        LET tag == params[2] IN
        <<Strategy(generateCacheKey(<<"/", "tags", "/">> \o tag, <<<<"tag">>, tag>>),
                   "extractExact", <<>>),
          Strategy(fullKey, "extractProductsByTagFromFull", <<tag>>)>>
    ELSE
        <<Strategy(generateCacheKey(endpoint, <<>>), "extractExact", <<>>)>>

\* strategy.ExtractFunc(cached, params...)
ExtractFunc(strategy, cached, order) ==
    LET f == strategy.ExtractFunc
        a == strategy.args
    IN  CASE f = "extractExact" -> extractExact(cached)
          [] f = "extractProductsFromFull" -> extractProductsFromFull(cached)
          [] f = "extractProductFromFull" -> extractProductFromFull(cached, a[1])
          [] f = "extractReleaseFromProduct" -> extractReleaseFromProduct(cached, a[1])
          [] f = "extractReleaseFromFull" -> extractReleaseFromFull(cached, a[1], a[2])
          [] f = "extractCategoriesFromFull" -> extractCategoriesFromFull(cached, order)
          [] f = "extractProductsByCategoryFromFull" ->
                 extractProductsByCategoryFromFull(cached, a[1])
          [] f = "extractTagsFromFull" -> extractTagsFromFull(cached, order)
          [] f = "extractProductsByTagFromFull" -> extractProductsByTagFromFull(cached, a[1])

----------------------------------------------------------------------------
(* The cache directory *)

EntryFile(entry) == [kind |-> "entry", entry |-> entry]

\* A regular file whose content does not deserialize into a CacheEntry.
CorruptFile == [kind |-> "corrupt"]

\* A regular file that cannot be read.
UnreadableFile == [kind |-> "unreadable"]

\* An empty subdirectory.
Directory == [kind |-> "dir"]

IsEntry(fs, name) == name \in DOMAIN fs /\ fs[name].kind = "entry"

Remove(fs, name) == [n \in DOMAIN fs \ {name} |-> fs[n]]

WriteFile(fs, name, file) == (name :> file) @@ fs

\* Mutant: every entry counts as expired.
AfterAlways(t, u) == TRUE

\* Mutant: an entry is given one more hour.
AfterAnHour(t, u) == t > u + 1

\* Mutant: an entry counts as expired from the instant of its expiresAt.
AfterOrAt(t, u) == t >= u

\* time.Now().After(expiresAt)
After(t, u) == t > u

\* Mutant: a file that does not hold an entry is removed like an expired one.
getRawCacheByKeyRemovingBroken(fs, cacheKey, t) ==
    IF cacheKey \notin DOMAIN fs THEN [data |-> NoData, found |-> FALSE, files |-> fs]
    ELSE IF fs[cacheKey].kind # "entry" \/ After(t, fs[cacheKey].entry.ExpiresAt)
         THEN [data |-> NoData, found |-> FALSE, files |-> Remove(fs, cacheKey)]
         ELSE [data |-> fs[cacheKey].entry.Data, found |-> TRUE, files |-> fs]

\* Returns [data, found, files]: the lookup result and the directory after it.
getRawCacheByKey(fs, cacheKey, t) ==
    IF cacheKey \notin DOMAIN fs THEN [data |-> NoData, found |-> FALSE, files |-> fs]
    ELSE IF fs[cacheKey].kind # "entry" THEN [data |-> NoData, found |-> FALSE, files |-> fs]
    ELSE IF After(t, fs[cacheKey].entry.ExpiresAt)
         THEN [data |-> NoData, found |-> FALSE, files |-> Remove(fs, cacheKey)]
         ELSE [data |-> fs[cacheKey].entry.Data, found |-> TRUE, files |-> fs]

\* Mutant: a candidate that is present but whose extractor fails ends the
\* search.
RECURSIVE tryStrategiesUntilPresent(_, _, _, _, _)
tryStrategiesUntilPresent(strategies, index, fs, t, order) ==
    IF index > Len(strategies)
    THEN [data |-> NoData, found |-> FALSE, files |-> fs, index |-> index]
    ELSE LET strategy == strategies[index]
             cached == getRawCacheByKey(fs, strategy.CacheKey, t)
             extracted == ExtractFunc(strategy, cached.data, order)
         IN  IF cached.found
             THEN [data |-> extracted.data, found |-> extracted.found,
                   files |-> cached.files, index |-> index]
             ELSE tryStrategiesUntilPresent(strategies, index + 1, cached.files, t, order)

\* Returns [data, found, files, index]; index is the winning strategy, or
\* Len(strategies) + 1 when none wins.
RECURSIVE tryStrategies(_, _, _, _, _)
tryStrategies(strategies, index, fs, t, order) ==
    IF index > Len(strategies)
    THEN [data |-> NoData, found |-> FALSE, files |-> fs, index |-> index]
    ELSE LET strategy == strategies[index]
             cached == getRawCacheByKey(fs, strategy.CacheKey, t)
             extracted == ExtractFunc(strategy, cached.data, order)
         IN  IF cached.found /\ extracted.found
             THEN [data |-> extracted.data, found |-> TRUE, files |-> cached.files,
                   index |-> index]
             ELSE tryStrategies(strategies, index + 1, cached.files, t, order)

----------------------------------------------------------------------------
(* Documents and requests used as inputs *)

go == <<"go">>
python == <<"python">>
redis == <<"redis">>
lang == <<"lang">>
db == <<"db">>
language == <<"language">>
scripting == <<"scripting">>
cpe == <<"cpe">>

v1_24 == <<"1", ".", "2", "4">>
v1_23 == <<"1", ".", "2", "3">>
v1_23_4 == <<"1", ".", "2", "3", ".", "4">>
v1_22 == <<"1", ".", "2", "2">>
v3_13 == <<"3", ".", "1", "3">>
v7_2 == <<"7", ".", "2">>

schemaVersion == JStr(<<"1.2.0">>)

releaseMap(name) == JObj([name |-> JStr(name), label |-> JStr(name)])

goMap ==
    JObj([name |-> JStr(go), label |-> JStr(<<"Go">>), category |-> JStr(lang),
          tags |-> JArr(<<JStr(language)>>),
          releases |-> JArr(<<releaseMap(v1_24), releaseMap(v1_23)>>)])

pythonMap ==
    JObj([name |-> JStr(python), label |-> JStr(<<"Python">>), category |-> JStr(lang),
          tags |-> JArr(<<JStr(language), JStr(scripting)>>),
          releases |-> JArr(<<releaseMap(v3_13)>>)])

\* A product without tags.
redisMap ==
    JObj([name |-> JStr(redis), label |-> JStr(<<"Redis">>), category |-> JStr(db),
          releases |-> JArr(<<releaseMap(v7_2)>>)])

\* The /products/full response.
fullProductsData ==
    JObj([schema_version |-> schemaVersion,
          last_modified |-> JStr(<<"2025-06-01T00:00:00Z">>),
          total |-> JNum(3),
          result |-> JArr(<<goMap, pythonMap, redisMap>>)])

\* A response as the API serves it for a narrower endpoint; generated_at
\* tells it from a document the cache derives.
served(result) ==
    JObj([schema_version |-> schemaVersion,
          generated_at |-> JStr(<<"2025-06-02T00:00:00Z">>),
          result |-> result])

\* An older /products/go response: the product before release 1.23 was added.
productDataOld ==
    served(JObj([name |-> JStr(go), label |-> JStr(<<"Go">>), category |-> JStr(lang),
                 releases |-> JArr(<<releaseMap(v1_24)>>)]))

testData == JObj([test |-> JStr(<<"value">>), num |-> JNum(42)])

Req(endpoint, params) == [endpoint |-> endpoint, params |-> params]

productsFull == Req(<<"/", "products", "/", "full">>, <<>>)

productsFullNoSlash == Req(<<"products", "/", "full">>, <<>>)

Products == Req(<<"/", "products">>, <<>>)

Product(p) == Req(productsPrefix \o p, <<p>>)

ProductRelease(p, rel) == Req(productsPrefix \o p \o releasesInfix \o rel, <<p, rel>>)

Categories == Req(<<"/", "categories">>, <<>>)

ProductsByCategory(cat) == Req(<<"/", "categories", "/">> \o cat, <<<<"category">>, cat>>)

Tags == Req(<<"/", "tags">>, <<>>)

ProductsByTag(tag) == Req(<<"/", "tags", "/">> \o tag, <<<<"tag">>, tag>>)

IdentifiersByType(typ) == Req(<<"/", "identifiers", "/">> \o typ, <<<<"identifier">>, typ>>)

testEndpoint == Req(<<"test", "-", "endpoint">>, <<>>)

\* The documents stored for a request.
Payloads(req) ==
    IF isFullEndpoint(req.endpoint) THEN {fullProductsData}
    ELSE IF req = Product(go) THEN {served(goMap), productDataOld}
    ELSE IF Len(req.params) = 2 /\ req = ProductRelease(req.params[1], req.params[2])
         THEN {served(releaseMap(req.params[2]))}
    ELSE IF req = testEndpoint THEN {testData}
    ELSE {served(JArr(<<JObj([name |-> JStr(req.endpoint)])>>))}

\* Two of the orders in which a Go map iteration can produce the category
\* and tag names of the catalog.
MapOrders == {<<lang, db, language, scripting>>, <<scripting, language, db, lang>>}

rangesOverMap(strategies) ==
    \E i \in 1..Len(strategies) :
        strategies[i].ExtractFunc \in {"extractCategoriesFromFull", "extractTagsFromFull"}

----------------------------------------------------------------------------
(* The default cache directory *)

\* filepath.Join(dir, names...) for clean elements; the separator of the
\* platform is written "/".
filepathJoin(dir, names) ==
    IF HasSuffix(dir, <<"/">>) THEN dir \o Join(names, <<"/">>)
    ELSE dir \o <<"/">> \o Join(names, <<"/">>)

\* Mutant: on macOS the cache goes into the shared caches folder itself.
defaultBaseDirShared(homeDir, homeErr, goos) ==
    IF homeErr THEN <<".eol-cache">>
    ELSE IF goos = "windows"
    THEN filepathJoin(homeDir, <<<<"AppData">>, <<"Local">>, <<"eol-cache">>>>)
    ELSE IF goos = "darwin"
    THEN filepathJoin(homeDir, <<<<"Library">>, <<"Caches">>>>)
    ELSE filepathJoin(homeDir, <<<<".cache">>, <<"eol">>>>)

\* The switch of NewCacheManager on os.UserHomeDir() and runtime.GOOS.
defaultBaseDir(homeDir, homeErr, goos) ==
    IF homeErr THEN <<".eol-cache">>
    ELSE IF goos = "windows"
    THEN filepathJoin(homeDir, <<<<"AppData">>, <<"Local">>, <<"eol-cache">>>>)
    ELSE IF goos = "darwin"
    THEN filepathJoin(homeDir, <<<<"Library">>, <<"Caches">>, <<"eol">>>>)
    ELSE filepathJoin(homeDir, <<<<".cache">>, <<"eol">>>>)

\* cm.baseDir as NewCacheManager(baseDir, ...) sets it.
newBaseDir(dir, homeDir, homeErr, goos) ==
    IF dir = <<>> THEN defaultBaseDir(homeDir, homeErr, goos) ELSE dir

\* What os.UserHomeDir() and runtime.GOOS can be.
HomeDirs == {<<"/", "home", "/", "u">>, <<"/">>}

GOOS == {"windows", "darwin", "linux"}

----------------------------------------------------------------------------
(* State machine *)

DefaultTTLs == {2, 48}

\* Hours by which the clock advances between two operations.
TickSteps == {2, 25}

\* A cache directory with an allow-listed final component, and one without.
eolDir == <<"/", "home", "/", "u", "/", ".cache", "/", "eol">>

dataDir == <<"/", "home", "/", "u", "/", "eol", "/", "data">>

DefaultBaseURL == <<"https://endoflife.date/api/v1">>

\* What a directory can hold besides the entries the manager wrote: a file
\* of another program, a subdirectory, an empty subdirectory whose name ends
\* like an entry file, and an entry file that cannot be read.
foreignFiles ==
    (<<"notes", ".", "json">> :> CorruptFile)
    @@ (<<"backup">> :> Directory)
    @@ (<<"old", ".", "eol_cache", ".", "json">> :> Directory)
    @@ (generateCacheKey(<<"test", "-", "endpoint">>, <<>>) :> UnreadableFile)

\* What an operation is called with and what it does: its request, the
\* document passed or returned, found, the error, the time, and the names of
\* the files it removed.
Observation(op, req, data, found, err, removed) ==
    [op |-> op, endpoint |-> req.endpoint, params |-> req.params,
     data |-> data, found |-> found, err |-> err, at |-> now, removed |-> removed]

NoReq == Req(<<>>, <<>>)

\* The state NewCacheManager(dir, url, en, ttl) starts from, on a directory
\* holding fs (an empty fs: the directory does not exist yet).
Construct(dir, url, en, ttl, fs) ==
    /\ baseDir = dir
    /\ baseURL = url
    /\ enabled = en
    /\ defaultTTL = ttl
    /\ files = fs
    /\ dirExists = (fs # <<>>)
    /\ now = 0
    /\ ticks = 0
    /\ nsets = 0
    /\ last = Observation("NewCacheManager", NoReq, NoData, FALSE, "nil", {})

\* A later run of the program: NewCacheManager with other settings, on the
\* directory as it is.
NewCacheManager(en, ttl) ==
    /\ <<en, ttl>> # <<enabled, defaultTTL>>
    /\ enabled' = en
    /\ defaultTTL' = ttl
    /\ last' = Observation("NewCacheManager", NoReq, NoData, FALSE, "nil", {})
    /\ UNCHANGED <<files, dirExists, now, ticks, nsets, baseDir, baseURL>>

\* The clock advances.
Tick(d) ==
    /\ ticks < MaxTicks
    /\ ticks' = ticks + 1
    /\ now' = now + d
    /\ UNCHANGED <<files, dirExists, nsets, config, last>>

\* Mutant: the cache never answers.
cmGetNever(fs, req, t, order) == [data |-> NoData, found |-> FALSE, files |-> fs]

\* Mutant: Get stores what it found under the key of the request.
cmGetPersisting(fs, req, t, order) ==
    LET r == tryStrategies(buildCacheStrategies(req.endpoint, req.params), 1, fs, t, order)
        entry == [Timestamp |-> t, ExpiresAt |-> t + defaultTTL, Data |-> r.data,
                  Endpoint |-> req.endpoint, Parameters |-> Join(req.params, <<"|">>)]
    IN  IF (~enabled /\ ~isFullEndpoint(req.endpoint)) \/ ~r.found
        THEN [data |-> NoData, found |-> FALSE, files |-> fs]
        ELSE [data |-> r.data, found |-> TRUE,
              files |-> WriteFile(r.files, generateCacheKey(req.endpoint, req.params),
                                  EntryFile(entry))]

\* Mutant: Get looks into the directory whether or not caching is enabled.
cmGetUngated(fs, req, t, order) ==
    LET r == tryStrategies(buildCacheStrategies(req.endpoint, req.params), 1, fs, t, order)
    IN  [data |-> r.data, found |-> r.found, files |-> r.files]

\* cm.Get(endpoint, params...) on the directory fs at time t; order is the
\* iteration order of Go maps.  Returns [data, found, files].
cmGet(fs, req, t, order) ==
    IF ~enabled /\ ~isFullEndpoint(req.endpoint)
    THEN [data |-> NoData, found |-> FALSE, files |-> fs]
    ELSE LET strategies == buildCacheStrategies(req.endpoint, req.params)
             r == tryStrategies(strategies, 1, fs, t, order)
         IN  [data |-> r.data, found |-> r.found, files |-> r.files]



\* A call of cm.Get by the program.
Get(req, order) ==
    /\ LET r == cmGet(files, req, now, order)
       IN  /\ last' = Observation("Get", req, r.data, r.found, "nil",
                                   DOMAIN files \ DOMAIN r.files)
           /\ files' = r.files
    /\ UNCHANGED <<dirExists, now, ticks, nsets, config>>

\* Mutant: the full catalog gets the default TTL like every other endpoint.
ttlForDefaultOnly(endpoint) == defaultTTL

\* The TTL Set gives an entry.
ttlFor(endpoint) == IF isFullEndpoint(endpoint) THEN fullTTL ELSE defaultTTL

\* How the file system can answer a cm.Set: "ok", "mkdir" (MkdirAll fails;
\* the directory does not exist yet) or "write" (the write fails after the
\* file was truncated).  A Set stopped at the gate does no I/O.
ioApplies(dirE, req, io) ==
    IF ~enabled /\ ~isFullEndpoint(req.endpoint) THEN io = "ok"
    ELSE io = "mkdir" => ~dirE

\* cm.Set(endpoint, data, params...) on the directory fs (existing or not:
\* dirE) at time t.  Returns [files, dirExists, err].
\* Mutant: Set also writes the entry into the slot of the full catalog.
cmSetIntoCatalog(fs, dirE, req, data, t, io) ==
    LET entry == [Timestamp |-> t,
                  ExpiresAt |-> t + ttlFor(req.endpoint),
                  Data |-> data,
                  Endpoint |-> req.endpoint,
                  Parameters |-> Join(req.params, <<"|">>)]
        own == WriteFile(fs, generateCacheKey(req.endpoint, req.params), EntryFile(entry))
    IN  [files |-> WriteFile(own, generateCacheKey(productsFull.endpoint, <<>>),
                             EntryFile(entry)),
         dirExists |-> TRUE, err |-> "nil"]

\* Mutant: a Set on an existing entry replaces its data and keeps its times.
cmSetRefreshing(fs, dirE, req, data, t, io) ==
    LET key == generateCacheKey(req.endpoint, req.params)
        entry == IF IsEntry(fs, key)
                 THEN [fs[key].entry EXCEPT !.Data = data]
                 ELSE [Timestamp |-> t,
                       ExpiresAt |-> t + ttlFor(req.endpoint),
                       Data |-> data,
                       Endpoint |-> req.endpoint,
                       Parameters |-> Join(req.params, <<"|">>)]
    IN  IF ~enabled /\ ~isFullEndpoint(req.endpoint)
        THEN [files |-> fs, dirExists |-> dirE, err |-> "nil"]
        ELSE [files |-> WriteFile(fs, key, EntryFile(entry)), dirExists |-> TRUE,
              err |-> "nil"]

cmSet(fs, dirE, req, data, t, io) ==
    IF ~enabled /\ ~isFullEndpoint(req.endpoint)
    THEN [files |-> fs, dirExists |-> dirE, err |-> "nil"]
    ELSE IF io = "mkdir"
    THEN [files |-> fs, dirExists |-> dirE, err |-> "failed to create cache directory"]
    ELSE LET ttl == ttlFor(req.endpoint)
             entry == [Timestamp |-> t,
                       ExpiresAt |-> t + ttl,
                       Data |-> data,
                       Endpoint |-> req.endpoint,
                       Parameters |-> Join(req.params, <<"|">>)]
             key == generateCacheKey(req.endpoint, req.params)
         IN  IF io = "ok"
             THEN [files |-> WriteFile(fs, key, EntryFile(entry)), dirExists |-> TRUE,
                   err |-> "nil"]
             ELSE [files |-> WriteFile(fs, key, CorruptFile), dirExists |-> TRUE,
                   err |-> "failed to write cache file"]

\* A call of cm.Set by the program.
Set(req, data, io) ==
    /\ nsets < MaxSets
    /\ nsets' = nsets + 1
    /\ ioApplies(dirExists, req, io)
    /\ LET s == cmSet(files, dirExists, req, data, now, io)
       IN  /\ files' = s.files
           /\ dirExists' = s.dirExists
           /\ last' = Observation("Set", req, data, FALSE, s.err, {})
    /\ UNCHANGED <<now, ticks, config>>

\* Mutant: one more directory name is allowed.
allowedDirsAndData == {<<".eol-cache">>, <<"eol-cache">>, <<"eol">>, <<"data">>}

allowedDirs == {<<".eol-cache">>, <<"eol-cache">>, <<"eol">>}

\* Mutant: the pattern misses the file of the full catalog.
GlobSparingCatalog(fs) ==
    {name \in DOMAIN fs : HasSuffix(name, cacheExt)
                          /\ name # generateCacheKey(productsFull.endpoint, <<>>)}

\* filepath.Glob(filepath.Join(baseDir, "*" + cacheExt))
Glob(fs) == {name \in DOMAIN fs : HasSuffix(name, cacheExt)}

\* cm.Clear()
Clear ==
    /\ IF Base(baseDir) \notin allowedDirs
       THEN /\ last' = Observation("Clear", NoReq, NoData, FALSE, "refusing to clear", {})
            /\ files' = files
       ELSE /\ last' = Observation("Clear", NoReq, NoData, FALSE, "nil", Glob(files))
            /\ files' = [n \in DOMAIN files \ Glob(files) |-> files[n]]
    /\ UNCHANGED <<dirExists, now, ticks, nsets, config>>

\* One step of a program that asks the cache for GetReqs and stores SetReqs.
Step(GetReqs, SetReqs, IOs, TTLs) ==
    \/ \E d \in TickSteps : Tick(d)
    \/ \E en \in BOOLEAN : \E ttl \in TTLs : NewCacheManager(en, ttl)
    \/ \E req \in GetReqs :
          \E order \in (IF rangesOverMap(buildCacheStrategies(req.endpoint, req.params))
                         THEN MapOrders ELSE {<<>>}) : Get(req, order)
    \/ \E req \in SetReqs : \E data \in Payloads(req) : \E io \in IOs : Set(req, data, io)
    \/ Clear

----------------------------------------------------------------------------
(* The smart lookup: a catalog, a product and a release entry, and the     *)
(* requests that can be answered from them.                                *)

Requests ==
    {Products, Product(go), ProductRelease(go, v1_23), ProductRelease(go, v1_23_4),
     ProductRelease(go, v1_22),
     Categories, ProductsByCategory(lang), Tags, ProductsByTag(scripting), productsFull}

SetRequests == {productsFull, Products, Product(go), ProductRelease(go, v1_23)}

Init == \E en \in BOOLEAN : Construct(eolDir, DefaultBaseURL, en, 2, <<>>)

Next == Step(Requests, SetRequests, {"ok"}, {2})

Spec == Init /\ [][Next]_vars

----------------------------------------------------------------------------
(* Storing and reading back: requests without a fallback, every setting    *)
(* of the enabled flag and of the default TTL, and a failing file system.  *)

StoreRequests == {productsFull, productsFullNoSlash, IdentifiersByType(cpe), testEndpoint}

InitStore ==
    \E en \in BOOLEAN : \E ttl \in DefaultTTLs : Construct(eolDir, DefaultBaseURL, en, ttl, <<>>)

NextStore == Step(StoreRequests, StoreRequests, {"ok", "mkdir", "write"}, DefaultTTLs)

SpecStore == InitStore /\ [][NextStore]_vars

----------------------------------------------------------------------------
(* The directory: an allow-listed and a refused cache directory that hold  *)
(* other files besides the entries.                                        *)

DirRequests == {testEndpoint, productsFull, Products}

InitDir ==
    \E dir \in {eolDir, dataDir} : \E fs \in {<<>>, foreignFiles} :
        Construct(dir, DefaultBaseURL, TRUE, 2, fs)

NextDir == Step(DirRequests, DirRequests, {"ok", "write"}, {2})

SpecDir == InitDir /\ [][NextDir]_vars

----------------------------------------------------------------------------
(* generateCacheKey as a function: two parameter lists for one endpoint.   *)

KeyEndpoints == {<<"/">>, <<"/", "products">>, <<"products">>, <<"/", "tags", "/", "go">>}

KeyParams ==
    {<<>>, <<go>>, <<python>>, <<go, python>>, <<python, go>>,
     <<<<"go", "|", "python">>>>, <<<<>>>>}

InitKey ==
    /\ Construct(eolDir, DefaultBaseURL, TRUE, 2, <<>>)

\* cm.generateCacheKey(endpoint, params1...) and cm.generateCacheKey(endpoint, params2...)
GenerateCacheKeys(endpoint, params1, params2) ==
    /\ last' = [op |-> "generateCacheKey", endpoint |-> endpoint,
                params |-> params1, params2 |-> params2,
                at |-> now,
                key |-> generateCacheKey(endpoint, params1),
                key2 |-> generateCacheKey(endpoint, params2)]
    /\ UNCHANGED <<files, dirExists, now, ticks, nsets, config>>

NextKey ==
    \E endpoint \in KeyEndpoints : \E params1, params2 \in KeyParams :
        GenerateCacheKeys(endpoint, params1, params2)

SpecKey == InitKey /\ [][NextKey]_vars

----------------------------------------------------------------------------
(* Scans of the cache directory: ClearExpired and GetStats *)

\* The letters that occur in file names, in the order of their bytes.  The
\* names of the model differ first in letters whose spellings differ in their
\* first byte, so comparing letters compares the names as strings.
byteOrder ==
    <<" ", "+", "-", ".", "/",
      "0", "1", "2", "3", "4", "5", "6", "7", "8", "9",
      "backup", "categories", "cpe", "db", "endpoint", "eol_cache", "full", "go",
      "identifiers", "index", "json", "lang", "notes", "old", "products", "python",
      "releases", "tags", "test", "|">>

\* The rank of a letter; the digits of a hash rank with the digits.
byteRank(l) ==
    IF \E i \in 1..Len(byteOrder) : byteOrder[i] = l
    THEN CHOOSE i \in 1..Len(byteOrder) : byteOrder[i] = l
    ELSE 6

\* a < b as strings.
RECURSIVE nameLess(_, _)
nameLess(a, b) ==
    IF b = <<>> THEN FALSE
    ELSE IF a = <<>> THEN TRUE
    ELSE IF Head(a) = Head(b) THEN nameLess(Tail(a), Tail(b))
    ELSE byteRank(Head(a)) < byteRank(Head(b))

\* os.ReadDir(cm.baseDir): the names of the directory, sorted by filename.
RECURSIVE sortedNames(_)
sortedNames(S) ==
    IF S = {} THEN <<>>
    ELSE LET first == CHOOSE x \in S : \A y \in S \ {x} : nameLess(x, y)
         IN  <<first>> \o sortedNames(S \ {first})

ReadDir(fs) == sortedNames(DOMAIN fs)

\* The loop of ClearExpired over the entries from index i on.  err is the
\* named result, which the reads and the deserializations of the loop assign.
RECURSIVE clearExpiredLoop(_, _, _, _, _)
clearExpiredLoop(entries, i, fs, t, err) ==
    IF i > Len(entries) THEN [files |-> fs, err |-> err]
    ELSE LET name == entries[i]
             file == fs[name]
         IN  IF file.kind = "dir" \/ ~HasSuffix(name, cacheExt)
             THEN clearExpiredLoop(entries, i + 1, fs, t, err)
             ELSE IF file.kind = "unreadable"
             THEN clearExpiredLoop(entries, i + 1, fs, t, "read error")
             ELSE IF file.kind = "corrupt"
             THEN clearExpiredLoop(entries, i + 1, fs, t, "unmarshal error")
             ELSE IF After(t, file.entry.ExpiresAt)
             THEN clearExpiredLoop(entries, i + 1, Remove(fs, name), t, "nil")
             ELSE clearExpiredLoop(entries, i + 1, fs, t, "nil")

\* cm.ClearExpired()
ClearExpired ==
    /\ LET r == clearExpiredLoop(ReadDir(files), 1, files, now, "nil")
       IN  /\ files' = r.files
           /\ last' = Observation("ClearExpired", NoReq, NoData, FALSE, r.err,
                                  DOMAIN files \ DOMAIN r.files)
    /\ dirExists' = TRUE
    /\ UNCHANGED <<now, ticks, nsets, config>>

\* fileInfo.Size(): the size of a file on disk (a stand-in: the sizes of
\* different kinds of files differ, and an entry is larger than its endpoint).
Size(file) ==
    IF file.kind = "entry" THEN 10 + Len(file.entry.Endpoint)
    ELSE IF file.kind = "corrupt" THEN 7
    ELSE 5

\* The loop of GetStats over the entries from index i on.
RECURSIVE getStatsLoop(_, _, _, _, _, _)
getStatsLoop(entries, i, fs, t, stats, err) ==
    IF i > Len(entries) THEN [stats |-> stats, err |-> err]
    ELSE LET name == entries[i]
             file == fs[name]
             counted == [stats EXCEPT !.TotalFiles = @ + 1, !.TotalSize = @ + Size(file)]
         IN  IF file.kind = "dir" \/ ~HasSuffix(name, <<".", "json">>)
             THEN getStatsLoop(entries, i + 1, fs, t, stats, err)
             ELSE IF file.kind = "unreadable"
             THEN getStatsLoop(entries, i + 1, fs, t, counted, "read error")
             ELSE IF file.kind = "corrupt"
             THEN getStatsLoop(entries, i + 1, fs, t, counted, "unmarshal error")
             ELSE IF After(t, file.entry.ExpiresAt)
             THEN getStatsLoop(entries, i + 1, fs, t,
                               [counted EXCEPT !.ExpiredFiles = @ + 1], "nil")
             ELSE getStatsLoop(entries, i + 1, fs, t,
                               [counted EXCEPT !.ValidFiles = @ + 1], "nil")

\* cm.GetStats()
GetStats ==
    /\ LET r == getStatsLoop(ReadDir(files), 1, files, now,
                             [Enabled |-> enabled, CacheDir |-> baseDir,
                              DefaultTTL |-> defaultTTL, FullTTL |-> fullTTL,
                              TotalSize |-> 0, TotalFiles |-> 0,
                              ExpiredFiles |-> 0, ValidFiles |-> 0],
                             "nil")
       IN  last' = [op |-> "GetStats", endpoint |-> <<>>, params |-> <<>>,
                    data |-> NoData, found |-> FALSE, err |-> r.err, at |-> now,
                    removed |-> {}, stats |-> r.stats]
    /\ dirExists' = TRUE
    /\ UNCHANGED <<files, now, ticks, nsets, config>>

ScanRequests == {testEndpoint, productsFull, Products}

InitScan ==
    \E fs \in {<<>>, foreignFiles} : Construct(eolDir, DefaultBaseURL, TRUE, 2, fs)

NextScan ==
    \/ Step(ScanRequests, ScanRequests, {"ok", "write"}, {2})
    \/ ClearExpired
    \/ GetStats

SpecScan == InitScan /\ [][NextScan]_vars

----------------------------------------------------------------------------
(* The client: doRequest and the operations built on it *)

\* strings.LastIndex(s, ch), counted from 1; 0 when ch does not occur.
LastIndex(s, ch) ==
    IF \E i \in 1..Len(s) : s[i] = ch
    THEN CHOOSE i \in 1..Len(s) : s[i] = ch /\ \A j \in (i + 1)..Len(s) : s[j] # ch
    ELSE 0

\* The loop of generateVersionVariants: current cut at its last dot, again
\* and again; an empty remainder is not a variant.
RECURSIVE variantsBelow(_)
variantsBelow(current) ==
    LET lastDot == LastIndex(current, ".")
    IN  IF lastDot = 0 THEN <<>>
        ELSE LET cut == SubSeq(current, 1, lastDot - 1)
             IN  (IF cut # <<>> THEN <<cut>> ELSE <<>>) \o variantsBelow(cut)

generateVersionVariants(version) ==
    LET ver == TrimSpace(version)
    IN  IF ver = <<>> THEN <<>> ELSE <<ver>> \o variantsBelow(ver)

\* The response type an endpoint is decoded into: "list" (result is a list,
\* with total), "product" (result is an object, with last_modified) or
\* "release" (result is an object).
responseKind(req) ==
    IF Len(req.params) = 2 /\ Contains(req.endpoint, releasesInfix) THEN "release"
    ELSE IF Len(req.params) = 1 /\ HasPrefix(req.endpoint, productsPrefix) THEN "product"
    ELSE "list"

\* json.Unmarshal of a document into a response of the given kind, and the
\* document json.Marshal makes of that response again: [ok, value].  Fields
\* the type does not declare are dropped, declared fields that are absent get
\* their zero value, and a result of the wrong JSON type is an error.  (The
\* fields inside the items are kept as they are.)
Unmarshal(kind, doc) ==
    LET result == Field(doc, "result")
        shapeOk == IF kind = "list" THEN IsArr(result) \/ result = JNull
                   ELSE IsObj(result) \/ result = JNull
        common == [schema_version |-> IF IsStr(Field(doc, "schema_version"))
                                      THEN Field(doc, "schema_version") ELSE JStr(<<>>),
                   result |-> IF result # JNull THEN result
                              ELSE IF kind = "list" THEN JNull ELSE JObj(<<>>)]
        extra == IF kind = "list"
                 THEN "total" :> (IF DOMAIN Field(doc, "total") = {"num"}
                                  THEN Field(doc, "total") ELSE JNum(0))
                 ELSE IF kind = "product"
                 THEN "last_modified" :> (IF IsStr(Field(doc, "last_modified"))
                                          THEN Field(doc, "last_modified")
                                          ELSE JStr(<<"0001-01-01T00:00:00Z">>))
                 ELSE <<>>
    IN  IF IsObj(doc) /\ shapeOk
        THEN [ok |-> TRUE, value |-> JObj(extra @@ common)]
        ELSE [ok |-> FALSE, value |-> NoData]

\* What the API can answer to one HTTP request.
ServerAnswers == {"200", "200 undecodable", "404", "500", "transport error"}

\* The body the API serves for a request with status 200.
apiBody(req, answer) ==
    IF answer = "200 undecodable" THEN JStr(<<"<html>">>)
    ELSE IF isFullEndpoint(req.endpoint) THEN fullProductsData
    ELSE IF req = Product(go) THEN served(goMap)
    ELSE IF responseKind(req) = "release" THEN served(releaseMap(req.params[2]))
    ELSE served(JArr(<<JObj([name |-> JStr(req.endpoint)])>>))

\* http.StatusText(resp.StatusCode) (code)
statusError(answer) ==
    IF answer = "404" THEN "Not Found (404)" ELSE "Internal Server Error (500)"

\* The result of a doRequest that did not fetch anything.
noFetch(result, err, fs, dirE, requests, answers) ==
    [result |-> result, err |-> err, files |-> fs, dirExists |-> dirE,
     requests |-> requests, answers |-> answers, fetched |-> NoData, setErr |-> "nil"]

\* The end of doRequest: the decoded response is returned with the error of
\* cm.Set, s being what the Set did.
stored(s, value, req, answer) ==
    [result |-> value, err |-> s.err, files |-> s.files, dirExists |-> s.dirExists,
     requests |-> <<req.endpoint>>, answers |-> <<answer>>,
     fetched |-> value, setErr |-> s.err]

\* doRequest after the body was read: decoded is the result of decoding it.
decodeAndStore(decoded, fs, dirE, req, t, answer, io) ==
    IF ~decoded.ok
    THEN noFetch(NoData, "failed to decode response", fs, dirE, <<req.endpoint>>,
                 <<answer>>)
    ELSE stored(cmSet(fs, dirE, req, decoded.value, t, io), decoded.value, req, answer)

\* Mutant: the body of an error status is stored like a response.
fetchStoringErrors(fs, dirE, req, t, answer, io) ==
    IF answer = "transport error"
    THEN noFetch(NoData, "request failed", fs, dirE, <<req.endpoint>>, <<answer>>)
    ELSE IF answer \in {"404", "500"}
    THEN noFetch(NoData, statusError(answer),
                 cmSet(fs, dirE, req, JObj([message |-> JStr(<<statusError(answer)>>)]),
                       t, "ok").files,
                 dirE, <<req.endpoint>>, <<answer>>)
    ELSE decodeAndStore(Unmarshal(responseKind(req), apiBody(req, answer)),
                        fs, dirE, req, t, answer, io)

\* doRequest after a cache miss: the HTTP request and what follows.
fetch(fs, dirE, req, t, answer, io) ==
    IF answer = "transport error"
    THEN noFetch(NoData, "request failed", fs, dirE, <<req.endpoint>>, <<answer>>)
    ELSE IF answer \in {"404", "500"}
    THEN noFetch(NoData, statusError(answer), fs, dirE, <<req.endpoint>>, <<answer>>)
    ELSE decodeAndStore(Unmarshal(responseKind(req), apiBody(req, answer)),
                        fs, dirE, req, t, answer, io)

\* doRequest after cm.Get returned c: a cached document that decodes is the
\* result, anything else goes to the network.
afterGet(c, dirE, req, t, answer, io) ==
    IF c.found /\ Unmarshal(responseKind(req), c.data).ok
    THEN noFetch(Unmarshal(responseKind(req), c.data).value, "nil", c.files, dirE,
                 <<>>, <<>>)
    ELSE fetch(c.files, dirE, req, t, answer, io)

\* c.doRequest(endpoint, result, params...); answer is the API's answer if a
\* request is made, io the file system's if the cache is written.  Returns
\* the decoded result, the error, the directory afterwards, the HTTP requests
\* made (their endpoints) and the answers they got, the response fetched and
\* decoded from the network (NoData if none) and the error of the cache write.
doRequest(fs, dirE, req, t, order, answer, io) ==
    afterGet(cmGet(fs, req, t, order), dirE, req, t, answer, io)

\* Every way a doRequest can go: one for each answer of the API and each
\* answer of the file system that it gets to see.
doRequestOutcomes(fs, dirE, req, t, order, IOs) ==
    {doRequest(fs, dirE, req, t, order, answer, io) :
        answer \in ServerAnswers, io \in {i \in IOs : ioApplies(dirE, req, i)}}

\* errors.Is(err, errNotFound); errNotFound = errors.New("not found")
isErrNotFound(err) == err = "not found"

\* What a client operation returns and does: the doRequest results put
\* together, with the variants a doRequest was made for.
clientResult(d, result, requests, answers, tried) ==
    [result |-> result, err |-> d.err, files |-> d.files, dirExists |-> d.dirExists,
     requests |-> requests \o d.requests, answers |-> answers \o d.answers,
     tried |-> tried, fetched |-> d.fetched, setErr |-> d.setErr]

\* The loop of Client.ProductRelease over the variants from index i on: every
\* way it can go.
RECURSIVE tryVariants(_, _, _, _, _, _, _, _, _, _, _)
tryVariants(variants, i, p, fs, dirE, t, order, IOs, requests, answers, tried) ==
    IF i > Len(variants)
    THEN {[result |-> NoData, err |-> "failed to get release (variants)", files |-> fs,
           dirExists |-> dirE, requests |-> requests, answers |-> answers,
           tried |-> tried, fetched |-> NoData, setErr |-> "nil"]}
    ELSE UNION {
           LET now_tried == Append(tried, variants[i])
           IN  IF d.err = "nil"
               THEN {clientResult(d, d.result, requests, answers, now_tried)}
               ELSE IF ~isErrNotFound(d.err)
               THEN {clientResult(d, NoData, requests, answers, now_tried)}
               ELSE tryVariants(variants, i + 1, p, d.files, d.dirExists, t, order, IOs,
                                requests \o d.requests, answers \o d.answers, now_tried)
           : d \in doRequestOutcomes(fs, dirE, ProductRelease(p, variants[i]), t, order, IOs)}

\* Client.ProductRelease(p, rls)
clientProductRelease(p, rls, fs, dirE, t, order, IOs) ==
    tryVariants(generateVersionVariants(rls), 1, p, fs, dirE, t, order, IOs,
                <<>>, <<>>, <<>>)

\* Client.ProductsFull, Client.Products, Client.Product, ...: one doRequest,
\* and no result when it returns an error.
clientSimple(req, fs, dirE, t, order, IOs) ==
    {clientResult(d, IF d.err = "nil" THEN d.result ELSE NoData, <<>>, <<>>, <<>>) :
        d \in doRequestOutcomes(fs, dirE, req, t, order, IOs)}

\* A call of a client operation by the program: the operation of the request
\* req (for a release request, req names the product and the release string
\* asked for).
ClientCall(req, order, IOs) ==
    \E r \in (IF responseKind(req) = "release"
              THEN clientProductRelease(req.params[1], req.params[2], files, dirExists,
                                        now, order, IOs)
              ELSE clientSimple(req, files, dirExists, now, order, IOs)) :
        /\ r.requests # <<>> => nsets < MaxSets
        /\ nsets' = nsets + (IF r.requests # <<>> THEN 1 ELSE 0)
        /\ files' = r.files
        /\ dirExists' = r.dirExists
        /\ last' = [op |-> "Client", endpoint |-> req.endpoint, params |-> req.params,
                    data |-> r.result, found |-> r.err = "nil", err |-> r.err,
                    at |-> now, removed |-> DOMAIN files \ DOMAIN r.files,
                    requests |-> r.requests, answers |-> r.answers, tried |-> r.tried,
                    fetched |-> r.fetched, setErr |-> r.setErr]
        /\ UNCHANGED <<now, ticks, config>>

ClientRequests ==
    {productsFull, Products, Product(go), ProductRelease(go, v1_23),
     ProductRelease(go, v1_23_4)}

InitClient == \E en \in BOOLEAN : Construct(eolDir, DefaultBaseURL, en, 2, <<>>)

NextClient ==
    \/ \E d \in TickSteps : Tick(d)
    \/ \E req \in ClientRequests : ClientCall(req, <<>>, {"ok", "mkdir", "write"})

SpecClient == InitClient /\ [][NextClient]_vars

----------------------------------------------------------------------------
(* The candidates of a release request: entries that are absent, corrupt,  *)
(* expired or valid, under a manager that is enabled or not.               *)

LookupRequests == {productsFull, Product(go), ProductRelease(go, v1_23)}

InitLookup == \E en \in BOOLEAN : Construct(eolDir, DefaultBaseURL, en, 2, <<>>)

NextLookup == Step(LookupRequests, LookupRequests, {"ok", "write"}, {2})

SpecLookup == InitLookup /\ [][NextLookup]_vars

----------------------------------------------------------------------------
(* The extractors: catalogs and product documents of several shapes, every *)
(* endpoint of the client, two base URLs.                                  *)

customBaseURL == <<"https://custom.api.example.com/v2">>

goWith(releases) ==
    JObj([name |-> JStr(go), label |-> JStr(<<"Go">>), category |-> JStr(lang),
          tags |-> JArr(<<JStr(language)>>), releases |-> JArr(releases)])

\* A product with an empty category, an empty tag and a tag listed twice.
pythonOdd ==
    JObj([name |-> JStr(python), label |-> JStr(<<"Python">>), category |-> JStr(<<>>),
          tags |-> JArr(<<JStr(<<>>), JStr(scripting), JStr(scripting)>>),
          releases |-> JArr(<<releaseMap(v3_13)>>)])

catalogOf(products) ==
    JObj([schema_version |-> schemaVersion,
          last_modified |-> JStr(<<"2025-06-01T00:00:00Z">>),
          total |-> JNum(Len(products)),
          result |-> JArr(products)])

\* /products/full responses: the catalog of three products; catalogs whose
\* product go lists a release 1.23 and a release 1.23.4, in both orders; a
\* catalog without go; an empty catalog; a response whose result is no list.
Catalogs ==
    {fullProductsData,
     catalogOf(<<goWith(<<releaseMap(v1_23), releaseMap(v1_23_4)>>), pythonMap>>),
     catalogOf(<<goWith(<<releaseMap(v1_23_4), releaseMap(v1_23)>>), pythonMap>>),
     catalogOf(<<redisMap, pythonOdd>>),
     catalogOf(<<>>),
     served(goMap)}

\* /products/go responses, and one whose result is no object.
ProductDocs ==
    {served(goMap), productDataOld,
     served(goWith(<<releaseMap(v1_23), releaseMap(v1_23_4)>>)),
     served(goWith(<<releaseMap(v1_23_4), releaseMap(v1_23)>>)),
     served(JArr(<<goMap>>))}

CatalogRequests ==
    {Products, Product(go), Product(python),
     ProductRelease(go, v1_23), ProductRelease(go, v1_23_4), ProductRelease(go, v1_22),
     Categories, ProductsByCategory(lang), ProductsByCategory(scripting),
     Tags, ProductsByTag(scripting), ProductsByTag(db),
     Req(<<"/">>, <<>>), IdentifiersByType(cpe)}

InitCatalog ==
    \E url \in {DefaultBaseURL, customBaseURL} : Construct(eolDir, url, TRUE, 2, <<>>)

NextCatalog ==
    \/ \E doc \in Catalogs : Set(productsFull, doc, "ok")
    \/ \E doc \in ProductDocs : Set(Product(go), doc, "ok")
    \/ \E req \in CatalogRequests :
          \E order \in (IF rangesOverMap(buildCacheStrategies(req.endpoint, req.params))
                         THEN MapOrders ELSE {<<>>}) : Get(req, order)

SpecCatalog == InitCatalog /\ [][NextCatalog]_vars

----------------------------------------------------------------------------
(* normalizeVersion on its own *)

MaxCore == 5

RECURSIVE SeqsUpTo(_, _)
SeqsUpTo(S, n) ==
    IF n = 0 THEN {<<>>}
    ELSE LET shorter == SeqsUpTo(S, n - 1)
         IN  shorter \cup {Append(s, x) : s \in shorter, x \in S}

\* The bodies of the versions given to normalizeVersion: every string of up
\* to MaxCore letters over a digit, the dot and "v", and the versions of
\* TestNormalizeVersion, the longer numbers among them.
VersionCores ==
    SeqsUpTo({"1", ".", "v"}, MaxCore)
      \cup {<<"latest">>, <<"lts">>,
            <<"1", ".", "2", "4", ".", "6">>,
            <<"1", "0", ".", "1", "5", ".", "7">>,
            <<"1", ".", "2", "4">>,
            <<"0", ".", "0", ".", "0">>,
            <<"1", ".", "1", " ", ".", "1">>}

\* What follows the body: nothing, a prerelease, build metadata, both, and
\* malformed or doubled suffixes and a fourth part.
VersionSuffixes ==
    {<<>>,
     <<"-", "rc">>, <<"+", "1">>, <<"-", "rc", "+", "1">>,
     <<"-", "rc", ".", "1">>, <<"+", "beta", "-", "1">>,
     <<"-">>, <<"+">>, <<"+", "1", "+", "1">>, <<"-", "rc", "+">>,
     <<".", "1">>}

VersionPads == {<<>>, <<" ">>, <<" ", " ">>}

Versions ==
    {l \o c \o s \o r : l \in VersionPads, c \in VersionCores,
                        s \in VersionSuffixes, r \in {<<>>, <<" ">>}}

\* The caller holds a version string; no cache is involved.
InitVersion ==
    \E version \in Versions :
        /\ baseDir = eolDir
        /\ baseURL = DefaultBaseURL
        /\ enabled = TRUE
        /\ defaultTTL = 2
        /\ files = <<>>
        /\ dirExists = FALSE
        /\ now = 0
        /\ ticks = 0
        /\ nsets = 0
        /\ last = [op |-> "version", version |-> version, ver |-> version, at |-> 0]

\* ver = normalizeVersion(ver): applied to the string in hand, the caller's
\* version first and then the result of the call before.
NormalizeVersion ==
    /\ last' = [op |-> "normalizeVersion", version |-> last.ver, at |-> now,
                ver |-> normalizeVersion(last.ver)]
    /\ UNCHANGED <<files, dirExists, now, ticks, nsets, config>>

NextVersion == NormalizeVersion

SpecVersion == InitVersion /\ [][NextVersion]_vars

----------------------------------------------------------------------------
(* Expiry: entries written with a positive, a zero and a negative default  *)
(* TTL, looked at by Get, ClearExpired and GetStats.                        *)

ExpiryRequests == {testEndpoint, Req(<<"/">>, <<>>), productsFull}

\* defaultTTL as the caller of NewCacheManager passes it, in hours.
ExpiryTTLs == {-1, 0, 2}

InitExpiry ==
    \E ttl \in ExpiryTTLs : Construct(eolDir, DefaultBaseURL, TRUE, ttl, <<>>)

NextExpiry ==
    \/ Step(ExpiryRequests, ExpiryRequests, {"ok"}, ExpiryTTLs)
    \/ ClearExpired
    \/ GetStats

SpecExpiry == InitExpiry /\ [][NextExpiry]_vars

----------------------------------------------------------------------------
(* Managers on the default cache directory of each platform, and one on a  *)
(* directory the caller names.                                             *)

DefaultsRequests == {testEndpoint, productsFull}

InitDefaults ==
    \E baseDirArg \in {<<>>, dataDir} :
      \E homeDir \in HomeDirs : \E homeErr \in BOOLEAN : \E goos \in GOOS :
        Construct(newBaseDir(baseDirArg, homeDir, homeErr, goos), DefaultBaseURL, TRUE, 2, <<>>)

NextDefaults == Step(DefaultsRequests, DefaultsRequests, {"ok"}, {2})

SpecDefaults == InitDefaults /\ [][NextDefaults]_vars

----------------------------------------------------------------------------
(* Two processes on one cache directory: a Get in one, a Set of the same   *)
(* key in the other, each advancing one system call at a time.             *)

\* The file between the open with O_TRUNC and the end of the write of
\* os.WriteFile: it holds a prefix of the new contents, which does not
\* deserialize.  entry is what the writer is writing.
PartialFile(entry) == [kind |-> "partial", entry |-> entry]

testDataNew == JObj([test |-> JStr(<<"new">>), num |-> JNum(43)])

RacePayloads == {testData, testDataNew}

\* Where the Get is: at os.Stat, os.ReadFile, json.Unmarshal (and what
\* follows it), or returned.
GetAt(pc, req, read, data, found, removed) ==
    [op |-> "Get", pc |-> pc, endpoint |-> req.endpoint, params |-> req.params,
     read |-> read, data |-> data, found |-> found, err |-> "nil", at |-> now,
     removed |-> removed]

GetRunning == last.op = "Get" /\ last.pc # "return"

\* cm.Get(endpoint) up to os.Stat in getRawCacheByKey: the one candidate of
\* the request is its own key.
RaceGetStat(req) ==
    /\ ~GetRunning
    /\ last' = IF generateCacheKey(req.endpoint, req.params) \in DOMAIN files
               THEN GetAt("ReadFile", req, NoData, NoData, FALSE, {})
               ELSE GetAt("return", req, NoData, NoData, FALSE, {})
    /\ UNCHANGED <<files, dirExists, now, ticks, nsets, config>>

\* data, err := os.ReadFile(filePath)
RaceGetReadFile ==
    /\ GetRunning
    /\ last.pc = "ReadFile"
    /\ LET key == generateCacheKey(last.endpoint, last.params)
       IN  last' = IF key \in DOMAIN files
                   THEN GetAt("Unmarshal", last, files[key], NoData, FALSE, {})
                   ELSE GetAt("return", last, NoData, NoData, FALSE, {})
    /\ UNCHANGED <<files, dirExists, now, ticks, nsets, config>>

\* json.Unmarshal of what was read, time.Now().After(entry.ExpiresAt), and
\* os.Remove(filePath) of whatever the path names by then.
RaceGetUnmarshal ==
    /\ GetRunning
    /\ last.pc = "Unmarshal"
    /\ LET key == generateCacheKey(last.endpoint, last.params)
       IN  IF last.read.kind # "entry"
           THEN /\ last' = GetAt("return", last, last.read, NoData, FALSE, {})
                /\ files' = files
           ELSE IF After(now, last.read.entry.ExpiresAt)
           THEN /\ last' = GetAt("return", last, last.read, NoData, FALSE,
                                 {key} \cap DOMAIN files)
                /\ files' = Remove(files, key)
           ELSE /\ last' = GetAt("return", last, last.read, last.read.entry.Data, TRUE, {})
                /\ files' = files
    /\ UNCHANGED <<dirExists, now, ticks, nsets, config>>

Writing == \E n \in DOMAIN files : files[n].kind = "partial"

\* cm.Set(endpoint, data) of the other process up to the open of
\* os.WriteFile, which creates or truncates the file.
RaceSetOpen(req, data) ==
    /\ nsets < MaxSets
    /\ ~Writing
    /\ nsets' = nsets + 1
    /\ files' = WriteFile(files, generateCacheKey(req.endpoint, req.params),
                          PartialFile([Timestamp |-> now,
                                       ExpiresAt |-> now + ttlFor(req.endpoint),
                                       Data |-> data,
                                       Endpoint |-> req.endpoint,
                                       Parameters |-> Join(req.params, <<"|">>)]))
    /\ dirExists' = TRUE
    /\ UNCHANGED <<now, ticks, config, last>>

\* The write and the close of os.WriteFile.  (A file removed in between is
\* gone: the write went to the unlinked file.)
RaceSetWrite ==
    /\ \E n \in DOMAIN files :
          /\ files[n].kind = "partial"
          /\ files' = [files EXCEPT ![n] = EntryFile(files[n].entry)]
    /\ UNCHANGED <<dirExists, now, ticks, nsets, config, last>>

InitRace == Construct(eolDir, DefaultBaseURL, TRUE, 2, <<>>)

\* The clock of the model counts hours: it does not advance within a call.
NextRace ==
    \/ \E d \in TickSteps : ~GetRunning /\ ~Writing /\ Tick(d)
    \/ RaceGetStat(testEndpoint)
    \/ RaceGetReadFile
    \/ RaceGetUnmarshal
    \/ \E data \in RacePayloads : RaceSetOpen(testEndpoint, data)
    \/ RaceSetWrite

SpecRace == InitRace /\ [][NextRace]_vars

----------------------------------------------------------------------------
(* Properties *)

\* The step is a Get (of the request recorded in last').
GetStep ==
    /\ last'.op = "Get"
    /\ UNCHANGED <<now, nsets, config>>

\* The step is a Set (of the request and document recorded in last').
SetStep ==
    /\ last'.op = "Set"
    /\ nsets' = nsets + 1

\* The TTL the documentation gives an endpoint.
FullEndpoints == {<<"/", "products", "/", "full">>, <<"products", "/", "full">>}

TTLOf(endpoint) == IF endpoint \in FullEndpoints THEN 24 ELSE defaultTTL

\* A Get that repeats the request of the Set before it.
GetAfterSet ==
    /\ last.op = "Set"
    /\ last.err = "nil"
    /\ GetStep
    /\ last'.endpoint = last.endpoint
    /\ last'.params = last.params

\* C1: round trip.  With caching enabled, a Get of (e, params) that follows
\* Set(e, P, params) before the TTL has elapsed returns found = true and P.
C1_RoundTrip ==
    [][(GetAfterSet /\ enabled /\ now <= last.at + TTLOf(last.endpoint))
         => (last'.found /\ last'.data = last.data)]_vars

\* Witness of C1's case: a Get that repeats the request of the Set before it,
\* within the TTL, with caching enabled.
C1_Witness ==
    /\ enabled
    /\ last.op = "Get"
    /\ last.found
    /\ last.endpoint = testEndpoint.endpoint
    /\ IsEntry(files, generateCacheKey(last.endpoint, last.params))

KeyOf(obs) == generateCacheKey(obs.endpoint, obs.params)

\* The entry a successful Set of (its request, its document) leaves at time t.
Stored(fs, obs, t) ==
    /\ IsEntry(fs, KeyOf(obs))
    /\ fs[KeyOf(obs)].entry.Data = obs.data
    /\ fs[KeyOf(obs)].entry.Timestamp = t

\* C5: disabled-cache gate.  With caching disabled, Set on an ordinary
\* endpoint succeeds and writes nothing and Get on it returns not-found; Set
\* on "/products/full" or "products/full" stores the document and the Get
\* that follows returns it; MustUseCache is true for exactly these two.
C5_DisabledGate ==
    [][~enabled =>
        /\ (SetStep /\ last'.endpoint \notin FullEndpoints)
              => (last'.err = "nil" /\ UNCHANGED <<files, dirExists>>)
        /\ (GetStep /\ last'.endpoint \notin FullEndpoints)
              => (~last'.found /\ last'.data = NoData)
        /\ (SetStep /\ last'.endpoint \in FullEndpoints /\ last'.err = "nil")
              => Stored(files', last', now)
        /\ (GetAfterSet /\ last'.endpoint \in FullEndpoints /\ now <= last.at + 24)
              => (last'.found /\ last'.data = last.data)
        /\ (SetStep \/ GetStep)
              => (MustUseCache(last'.endpoint) <=> last'.endpoint \in FullEndpoints)
      ]_vars

\* A Get of "products/full" answered from the cache while caching is disabled.
C5_Witness ==
    /\ ~enabled
    /\ last.op = "Get"
    /\ last.endpoint = productsFullNoSlash.endpoint
    /\ last.found
    /\ last.data = fullProductsData

\* C6: TTL selection.  An entry Set writes has expiresAt = timestamp + TTL,
\* the TTL being 24 hours for the full catalog and the configured default TTL
\* for every other endpoint, whatever the enabled flag; and only a Set of the
\* same key changes the expiresAt of an entry.
C6_TTLSelection ==
    [][/\ (SetStep /\ last'.err = "nil" /\ (enabled \/ last'.endpoint \in FullEndpoints))
            => /\ Stored(files', last', now)
               /\ files'[KeyOf(last')].entry.ExpiresAt = now + TTLOf(last'.endpoint)
       /\ \A k \in DOMAIN files \cap DOMAIN files' :
            (/\ IsEntry(files, k)
             /\ IsEntry(files', k)
             /\ files'[k].entry.ExpiresAt # files[k].entry.ExpiresAt)
            => (SetStep /\ k = KeyOf(last'))
      ]_vars

\* A full-catalog entry written with 24 hours while caching is disabled and the
\* default TTL is 48 hours.
C6_Witness ==
    /\ last.op = "Set"
    /\ ~enabled
    /\ defaultTTL = 48
    /\ IsEntry(files, KeyOf(last))
    /\ files[KeyOf(last)].entry.Timestamp = now
    /\ files[KeyOf(last)].entry.ExpiresAt = now + 24

\* An entry that is present and unexpired at time t.
IsValid(fs, name, t) == IsEntry(fs, name) /\ t <= fs[name].entry.ExpiresAt

\* The request is for one release of a product.
IsReleaseRequest(obs) ==
    /\ Len(obs.params) = 2
    /\ obs.endpoint = <<"/", "products", "/">> \o obs.params[1]
                        \o <<"/", "releases", "/">> \o obs.params[2]

\* The keys of the entries broader than the request's own: the product entry
\* for a release request, and the full catalog.
BroaderKeys(obs) ==
    ({KeyOf(productsFull)}
       \cup (IF IsReleaseRequest(obs) THEN {KeyOf(Product(obs.params[1]))} ELSE {}))
    \ {KeyOf(obs)}

\* A Get whose exact entry and one broader entry are both present and unexpired.
GetWithExactAndBroader ==
    /\ GetStep
    /\ IsValid(files, KeyOf(last'), now)
    /\ \E k \in BroaderKeys(last') : IsValid(files, k, now)

\* C2 as stated: whenever the exact entry and a broader entry are both
\* present and unexpired, Get returns the exact entry's stored payload.
C2_FallbackOrderingAlways ==
    [][GetWithExactAndBroader
         => (last'.found /\ last'.data = files[KeyOf(last')].entry.Data)]_vars

\* C2: fallback ordering.  With caching enabled, whenever the exact entry and
\* a broader entry are both present and unexpired, Get returns the exact
\* entry's stored payload and not a payload derived from the broader entry.
C2_FallbackOrdering ==
    [][(enabled /\ GetWithExactAndBroader)
         => (last'.found /\ last'.data = files[KeyOf(last')].entry.Data)]_vars

\* A product request answered with the older product document stored under
\* its own key while the full catalog, which holds the product too, is valid.
C2_Witness ==
    /\ enabled
    /\ last.op = "Get"
    /\ last.at = now
    /\ last.endpoint = Product(go).endpoint
    /\ last.removed = {}
    /\ IsValid(files, KeyOf(last), now)
    /\ IsValid(files, KeyOf(productsFull), now)
    /\ last.found
    /\ last.data = productDataOld
    /\ last.data # extractProductFromFull(fullProductsData, go).data

\* The request of an observation.
ReqOf(obs) == Req(obs.endpoint, obs.params)

\* The full catalog is the only entry present, and it is unexpired.
OnlyCatalog ==
    /\ DOMAIN files = {KeyOf(productsFull)}
    /\ IsValid(files, KeyOf(productsFull), now)

Catalog == files[KeyOf(productsFull)].entry.Data

CatalogProducts == Field(Catalog, "result").arr

NamesOf(items) == [i \in 1..Len(items) |-> Field(items[i], "name").str]

Range(seq) == {seq[i] : i \in 1..Len(seq)}

\* The requests the catalog of three products can answer.
DerivableRequests ==
    {Products, Product(go), ProductRelease(go, v1_23), ProductRelease(go, v1_23_4),
     Categories, ProductsByCategory(lang), Tags, ProductsByTag(scripting)}

\* The items of the response are the summaries of the given catalog products,
\* in that order.
SummarizesExactly(doc, products) ==
    /\ IsArr(Field(doc, "result"))
    /\ Field(doc, "total") = JNum(Len(products))
    /\ Len(Field(doc, "result").arr) = Len(products)
    /\ \A i \in 1..Len(products) :
          \A k \in {"name", "label", "category"} :
              Field(Field(doc, "result").arr[i], k) = Field(products[i], k)

\* The items of the response name exactly the given values, each once.
ListsExactly(doc, values) ==
    /\ IsArr(Field(doc, "result"))
    /\ Field(doc, "total") = JNum(Cardinality(values))
    /\ Len(Field(doc, "result").arr) = Cardinality(values)
    /\ Range(NamesOf(Field(doc, "result").arr)) = values

\* What the stored catalog holds for the request: the result of the response.
ResultFromCatalog(req, doc) ==
    CASE req = Products -> SummarizesExactly(doc, CatalogProducts)
      [] req = Product(go) -> Field(doc, "result") = CatalogProducts[1]
      [] req \in {ProductRelease(go, v1_23), ProductRelease(go, v1_23_4)} ->
            /\ Field(doc, "result") \in Range(Field(CatalogProducts[1], "releases").arr)
            /\ Field(Field(doc, "result"), "name") = JStr(v1_23)
      [] req = Categories -> ListsExactly(doc, {lang, db})
      [] req = ProductsByCategory(lang) ->
            SummarizesExactly(doc, <<CatalogProducts[1], CatalogProducts[2]>>)
      [] req = Tags -> ListsExactly(doc, {language, scripting})
      [] req = ProductsByTag(scripting) -> SummarizesExactly(doc, <<CatalogProducts[2]>>)

\* Every other field of the response is the catalog's field of that name.
EnvelopeFromCatalog(doc) ==
    \A k \in DOMAIN doc.obj \ {"result", "total"} :
        HasField(Catalog, k) /\ Field(Catalog, k) = doc.obj[k]

\* A Get of a derivable request while the catalog is the only entry.
GetFromCatalogOnly ==
    /\ enabled
    /\ GetStep
    /\ OnlyCatalog
    /\ ReqOf(last') \in DerivableRequests

\* C3: fallback synthesis.  When the only entry present is a valid
\* full-catalog entry, Get succeeds for the product list, a catalog product, a
\* release of it (by exact name or by a major.minor.patch string), the
\* category list, products-by-category, the tag list and products-by-tag, and
\* the response holds exactly what the stored catalog holds for the request.
C3_FallbackSynthesis ==
    [][GetFromCatalogOnly
         => /\ last'.found
            /\ IsObj(last'.data)
            /\ ResultFromCatalog(ReqOf(last'), last'.data)
            /\ EnvelopeFromCatalog(last'.data)]_vars

\* A Get, not stopped by the disabled-cache gate, of a request whose own
\* entry has expired.
GetOfExpired ==
    /\ GetStep
    /\ enabled \/ last'.endpoint \in FullEndpoints
    /\ IsEntry(files, KeyOf(last'))
    /\ now > files[KeyOf(last')].entry.ExpiresAt

\* C4: expiry.  A Get of an entry's key at a time later than the entry's
\* write time plus its TTL returns not-found and removes the backing file
\* (the Get passes the disabled-cache gate and no broader entry is present).
C4_Expiry ==
    [][(GetOfExpired /\ \A k \in BroaderKeys(last') : k \notin DOMAIN files)
         => (~last'.found /\ KeyOf(last') \notin DOMAIN files')]_vars

\* The step is a Clear.
ClearStep ==
    /\ last'.op = "Clear"
    /\ UNCHANGED <<now, nsets, config>>

\* The final path component of the configured directory is on the allow-list.
AllowListed ==
    baseDir[Len(baseDir)] \in {".eol-cache", "eol-cache", "eol"}

\* C7: Clear refusal.  When the final path component of the cache directory
\* is not ".eol-cache", "eol-cache" or "eol", Clear returns the
\* refusing-to-clear error and leaves every file of the directory intact.
C7_ClearRefusal ==
    [][(ClearStep /\ ~AllowListed)
         => (last'.err = "refusing to clear" /\ UNCHANGED <<files, dirExists>>)]_vars

\* Clear has refused on a directory that holds an entry file; the path has
\* an allow-listed component that is not its last.
C7_Witness ==
    /\ last.op = "Clear"
    /\ last.err = "refusing to clear"
    /\ baseDir = dataDir
    /\ Contains(baseDir, <<"eol">>)
    /\ \E n \in DOMAIN files : IsEntry(files, n) /\ HasSuffix(n, cacheExt)

\* A regular file whose name ends with the cache-entry extension.
IsCacheFile(fs, n) == fs[n].kind # "dir" /\ HasSuffix(n, <<".", "eol_cache", ".", "json">>)

\* C8: Clear on an allow-listed directory removes every file whose name ends
\* with the cache-entry extension and leaves every other file, every
\* subdirectory and the directory itself untouched.
C8_ClearFrame ==
    [][(ClearStep /\ AllowListed)
         => /\ \A n \in DOMAIN files :
                 IF IsCacheFile(files, n)
                 THEN n \notin DOMAIN files'
                 ELSE n \in DOMAIN files' /\ files'[n] = files[n]
            /\ DOMAIN files' \subseteq DOMAIN files
            /\ dirExists' = dirExists]_vars

\* C9: key determinism.  Identical inputs give the identical key, and for one
\* endpoint two parameter lists that differ in order or in content give
\* different keys.
C9_KeyDeterminism ==
    last.op = "generateCacheKey"
        => /\ last.params = last.params2 => last.key = last.key2
           /\ last.params # last.params2 => last.key # last.key2

\* The candidate keys of a request, in the order Get tries them.
CandidateKeys(obs) ==
    LET strategies == buildCacheStrategies(obs.endpoint, obs.params)
    IN  {strategies[i].CacheKey : i \in 1..Len(strategies)}

\* A file Get cannot take an entry from.
IsBroken(fs, n) == n \in DOMAIN fs /\ fs[n].kind \in {"corrupt", "unreadable"}

\* Nothing can be served from the key at time t: the file is absent, broken
\* (or not a regular file), or its entry has expired.
Unservable(fs, n, t) == ~IsValid(fs, n, t)

\* C10: uniform not-found.  Get never reports an error; when each key it
\* looks up is absent, unreadable, not a valid envelope or expired, the result
\* is the same found = false with no data; and Get leaves corrupt and
\* unreadable files in place.
C10_UniformNotFound ==
    [][GetStep
         => /\ last'.err = "nil"
            /\ (\A k \in CandidateKeys(last') : Unservable(files, k, now))
                  => (~last'.found /\ last'.data = NoData)
            /\ \A n \in DOMAIN files :
                  IsBroken(files, n) => (n \in DOMAIN files' /\ files'[n] = files[n])]_vars

\* A Get that found nothing because the file at its key is corrupt, and the
\* file is still there.
C10_Witness ==
    /\ last.op = "Get"
    /\ last.at = now
    /\ ~last.found
    /\ last.data = NoData
    /\ last.err = "nil"
    /\ KeyOf(last) \in DOMAIN files
    /\ files[KeyOf(last)].kind = "corrupt"

\* The major.minor normalization of the release strings requested.
MajorMinorOf(r) == IF r = <<"1", ".", "2", "3", ".", "4">> THEN <<"1", ".", "2", "3">> ELSE r

\* The release lists a release request can be served from, when its own entry
\* cannot serve it: the list of the product entry and the list the catalog
\* holds for the product, each if present and unexpired.
ReleaseListsFor(obs) ==
    LET productKey == KeyOf(Product(obs.params[1]))
        fromProduct ==
            IF IsValid(files, productKey, now)
            THEN {Field(Field(files[productKey].entry.Data, "result"), "releases").arr}
            ELSE {}
        fromCatalog ==
            IF IsValid(files, KeyOf(productsFull), now)
            THEN {Field(p, "releases").arr :
                    p \in {q \in Range(CatalogProducts) : Field(q, "name") = JStr(obs.params[1])}}
            ELSE {}
    IN  fromProduct \cup fromCatalog

\* The releases of those lists named r or the major.minor normalization of r.
MatchingReleases(obs) ==
    {rel \in UNION {Range(l) : l \in ReleaseListsFor(obs)} :
        Field(rel, "name") \in {JStr(obs.params[2]), JStr(MajorMinorOf(obs.params[2]))}}

\* A Get of a release that its own entry cannot serve.
GetReleaseByFallback ==
    /\ enabled
    /\ GetStep
    /\ IsReleaseRequest(last')
    /\ ~IsValid(files, KeyOf(last'), now)

\* C11: version normalization in release lookup.  A release request for r
\* served from a product entry or from the full catalog matches a release
\* named r or named the major.minor normalization of r: it is found exactly
\* when such a release is held, and the payload is one of them; with only the
\* catalog, "1.23.4" of "go" gives the release "1.23" and "1.22" is not found.
C11_ReleaseNormalization ==
    [][GetReleaseByFallback
         => /\ last'.found <=> MatchingReleases(last') # {}
            /\ last'.found => Field(last'.data, "result") \in MatchingReleases(last')
            /\ (OnlyCatalog /\ ReqOf(last') = ProductRelease(go, v1_23_4))
                  => (last'.found /\ Field(Field(last'.data, "result"), "name") = JStr(v1_23))
            /\ (OnlyCatalog /\ ReqOf(last') = ProductRelease(go, v1_22)) => ~last'.found]_vars

\* Release "1.23.4" of "go" answered with the release "1.23" from the catalog,
\* the only entry.
C11_Witness ==
    /\ enabled
    /\ last.op = "Get"
    /\ last.at = now
    /\ ReqOf(last) = ProductRelease(go, v1_23_4)
    /\ OnlyCatalog
    /\ last.found
    /\ Field(Field(last.data, "result"), "name") = JStr(v1_23)

\* The step is a call of a client operation (of the request recorded in last').
ClientStep ==
    /\ last'.op = "Client"
    /\ UNCHANGED <<now, config>>

\* The request of the step is narrower than a response that was fetched and
\* cached and is unexpired: a request the catalog answers, while the catalog
\* is cached; a release of the product, while the product is cached.
NarrowerThanCached ==
    \/ /\ IsValid(files, KeyOf(productsFull), now)
       /\ ReqOf(last') \in {Products, Product(go), ProductRelease(go, v1_23),
                            ProductRelease(go, v1_23_4)}
    \/ /\ IsValid(files, KeyOf(Product(go)), now)
       /\ ReqOf(last') \in {ProductRelease(go, v1_23), ProductRelease(go, v1_23_4)}

\* C12 as stated: once a broader response is cached and unexpired, a narrower
\* request derivable from it is answered with no HTTP request.
C12_SmartCachingAlways ==
    [][(ClientStep /\ NarrowerThanCached)
         => (last'.requests = <<>> /\ last'.err = "nil")]_vars

\* C12: client-level smart caching.  With caching enabled, once a broader
\* response has been fetched and cached and is unexpired, every narrower
\* request derivable from it is answered with no HTTP request: Products,
\* Product(p) and ProductRelease(p, r) after ProductsFull, and
\* ProductRelease(p, r) (r exact or normalizing to a release) after Product(p).
C12_SmartCaching ==
    [][(enabled /\ ClientStep /\ NarrowerThanCached)
         => (last'.requests = <<>> /\ last'.err = "nil" /\ last'.data # NoData)]_vars

\* Release "1.23.4" of "go" returned as "1.23" without a request, from the
\* product response fetched before; the catalog is not cached.
C12_Witness ==
    /\ enabled
    /\ last.op = "Client"
    /\ last.at = now
    /\ ReqOf(last) = ProductRelease(go, v1_23_4)
    /\ last.requests = <<>>
    /\ last.err = "nil"
    /\ Field(Field(last.data, "result"), "name") = JStr(v1_23)
    /\ IsValid(files, KeyOf(Product(go)), now)
    /\ KeyOf(productsFull) \notin DOMAIN files

\* C13: a cache write failure does not abort a request whose data was already
\* fetched: when the fetch and the decoding succeed and Set fails, the client
\* operation returns the fetched data and no error.
C13_WriteFailureTolerated ==
    [][(ClientStep /\ last'.fetched # NoData /\ last'.setErr # "nil")
         => (last'.err = "nil" /\ last'.data = last'.fetched)]_vars

\* The variants of the release strings requested, most specific first.
VariantsOf(r) ==
    IF r = <<"1", ".", "2", "3", ".", "4">>
    THEN << <<"1", ".", "2", "3", ".", "4">>, <<"1", ".", "2", "3">>, <<"1">> >>
    ELSE IF r = <<"1", ".", "2", "3">>
    THEN << <<"1", ".", "2", "3">>, <<"1">> >>
    ELSE <<r>>

\* C20: version fallback.  ProductRelease(p, r) tries the variants of r from
\* most to least specific, each at most once, stops at the first variant that
\* succeeds, moves on to the next variant after a 404 Not Found and only then,
\* and lets any other error bubble up without trying further variants.
C20_VersionFallback ==
    [][(ClientStep /\ IsReleaseRequest(last'))
         => LET variants == VariantsOf(last'.params[2])
                tried == last'.tried
                answers == last'.answers
            IN  /\ tried # <<>>
                /\ Len(tried) <= Len(variants)
                /\ tried = SubSeq(variants, 1, Len(tried))
                /\ Len(answers) \in {Len(tried) - 1, Len(tried)}
                /\ \A i \in 1..Len(answers) :
                      /\ (answers[i] = "404" /\ i < Len(variants)) => Len(tried) > i
                      /\ answers[i] \in {"500", "transport error", "200 undecodable"}
                            => (Len(tried) = i /\ last'.err # "nil")
                      /\ answers[i] = "200" => Len(tried) = i]_vars

ClearExpiredStep ==
    /\ last'.op = "ClearExpired"
    /\ UNCHANGED <<now, nsets, config>>

GetStatsStep ==
    /\ last'.op = "GetStats"
    /\ UNCHANGED <<now, nsets, config>>

\* C14: best-effort skip.  ClearExpired and GetStats return without error
\* however many corrupt or unreadable entry files the directory holds and
\* wherever they fall in the scan order (the directory of the model can
\* always be created and listed).
C14_BestEffortSkip ==
    [][(ClearExpiredStep \/ GetStatsStep) => last'.err = "nil"]_vars

\* A regular file with the cache-entry extension that deserializes and whose
\* expiresAt has passed at time t.
IsExpiredEntry(fs, n, t) ==
    /\ IsEntry(fs, n)
    /\ HasSuffix(n, <<".", "eol_cache", ".", "json">>)
    /\ t > fs[n].entry.ExpiresAt

EntryFiles(fs) ==
    {n \in DOMAIN fs : fs[n].kind # "dir" /\ HasSuffix(n, <<".", "eol_cache", ".", "json">>)}

RECURSIVE SumOfSizes(_, _)
SumOfSizes(fs, names) ==
    IF names = {} THEN 0
    ELSE LET n == CHOOSE x \in names : TRUE
         IN  Size(fs[n]) + SumOfSizes(fs, names \ {n})

\* C16: stats accuracy.  GetStats reports TotalFiles = the number of entry
\* files in the directory, ValidFiles = the readable entries whose expiresAt
\* has not passed, ExpiredFiles = the readable entries whose expiresAt has
\* passed, TotalSize = the sum of the sizes of the counted files, and
\* ValidFiles + ExpiredFiles <= TotalFiles.
C16_StatsAccuracy ==
    [][GetStatsStep
         => LET stats == last'.stats
            IN  /\ stats.TotalFiles = Cardinality(EntryFiles(files))
                /\ stats.ValidFiles
                      = Cardinality({n \in EntryFiles(files) : IsValid(files, n, now)})
                /\ stats.ExpiredFiles
                      = Cardinality({n \in EntryFiles(files) : IsExpiredEntry(files, n, now)})
                /\ stats.TotalSize = SumOfSizes(files, EntryFiles(files))
                /\ stats.ValidFiles + stats.ExpiredFiles <= stats.TotalFiles]_vars

\* C17: GetStats never mutates state: it creates, modifies and deletes no
\* file and no directory, also when the cache directory does not exist yet.
C17_GetStatsReadOnly ==
    [][GetStatsStep => UNCHANGED <<files, dirExists>>]_vars

\* C18: Set(e, P, params) writes only the file named by the cache key of
\* (e, params): every other file of the directory, in particular the product
\* entry and the full-catalog entry that serve as fallbacks for e, is left
\* unchanged; a Set that caches and succeeds leaves its entry at that key.
C18_SetFrame ==
    [][SetStep
         => /\ \A n \in (DOMAIN files \cup DOMAIN files') \ {KeyOf(last')} :
                  /\ n \in DOMAIN files
                  /\ n \in DOMAIN files'
                  /\ files'[n] = files[n]
            /\ (last'.err = "nil" /\ (enabled \/ isFullEndpoint(last'.endpoint)))
                  => /\ IsEntry(files', KeyOf(last'))
                     /\ files'[KeyOf(last')].entry.Data = last'.data]_vars

\* A release entry has been stored while the full catalog, its fallback, was
\* cached under another key.
C18_Witness ==
    /\ last.op = "Set"
    /\ last.err = "nil"
    /\ ReqOf(last) = ProductRelease(go, v1_23)
    /\ IsEntry(files, KeyOf(last))
    /\ KeyOf(productsFull) \in BroaderKeys(last)
    /\ IsEntry(files, KeyOf(productsFull))
    /\ files[KeyOf(productsFull)].entry.Data = fullProductsData

\* No key that Get looks up for a request of the program, the exact key or
\* a fallback's, holds an entry that can be served.
RequestKeys == UNION {CandidateKeys(req) : req \in Requests}

NothingCached == \A k \in RequestKeys : Unservable(files, k, now)

\* C19: after a successful Clear on an allow-listed directory, Get returns
\* not-found for every endpoint and parameter list (exact and fallback
\* candidates alike, including the full catalog) until the next Set.
C19_ClearThenNotFound ==
    [][/\ (ClearStep /\ AllowListed /\ last'.err = "nil") => NothingCached'
       /\ (NothingCached /\ ~SetStep) => NothingCached'
       /\ (NothingCached /\ GetStep) => (~last'.found /\ last'.data = NoData)]_vars

\* Clear has just removed the full catalog and a release entry, the exact
\* and the fallback candidate of a release request.
C19_Witness ==
    /\ last.op = "Clear"
    /\ last.err = "nil"
    /\ KeyOf(productsFull) \in last.removed
    /\ KeyOf(ProductRelease(go, v1_23)) \in last.removed
    /\ NothingCached

\* The request is for one product.
IsProductRequest(obs) ==
    /\ Len(obs.params) = 1
    /\ obs.endpoint = <<"/", "products", "/">> \o obs.params[1]

\* The request is for the products of a category or of a tag.
IsSelectionRequest(obs) ==
    /\ Len(obs.params) = 2
    /\ \/ /\ obs.params[1] = <<"category">>
          /\ obs.endpoint = <<"/", "categories", "/">> \o obs.params[2]
       \/ /\ obs.params[1] = <<"tag">>
          /\ obs.endpoint = <<"/", "tags", "/">> \o obs.params[2]

\* The endpoints the documentation derives from the full catalog alone.
DerivedFromCatalog(obs) ==
    \/ obs.params = <<>>
       /\ obs.endpoint \in {<<"/", "products">>, <<"/", "categories">>, <<"/", "tags">>}
    \/ IsProductRequest(obs)
    \/ IsSelectionRequest(obs)

\* C21: buildCacheStrategies(e, params) returns a non-empty list whose first
\* element is the cache key of exactly (e, params), the key Set writes, with
\* the identity extractor; a release endpoint then gets the product's exact
\* key and the full-catalog key; product-list, single-product, category-list,
\* products-by-category, tag-list and products-by-tag endpoints get the
\* full-catalog key as second and last element; every other endpoint gets
\* exactly one element.
C21_StrategyList ==
    [][GetStep
         => LET strategies == buildCacheStrategies(last'.endpoint, last'.params)
            IN  /\ Len(strategies) >= 1
                /\ strategies[1].CacheKey = KeyOf(last')
                /\ strategies[1].ExtractFunc = "extractExact"
                /\ IsReleaseRequest(last')
                      => /\ Len(strategies) = 3
                         /\ strategies[2].CacheKey = KeyOf(Product(last'.params[1]))
                         /\ strategies[3].CacheKey = KeyOf(productsFull)
                /\ DerivedFromCatalog(last')
                      => /\ Len(strategies) = 2
                         /\ strategies[2].CacheKey = KeyOf(productsFull)
                /\ (~IsReleaseRequest(last') /\ ~DerivedFromCatalog(last'))
                      => Len(strategies) = 1]_vars

\* The candidate can answer at time t: its file holds an unexpired entry and
\* its extractor succeeds on the entry's payload.
Serves(fs, strategy, t) ==
    /\ IsValid(fs, strategy.CacheKey, t)
    /\ ExtractFunc(strategy, fs[strategy.CacheKey].entry.Data, <<>>).found

\* The positions of the candidates of a request that can answer.
Winners(obs, fs, t) ==
    LET strategies == buildCacheStrategies(obs.endpoint, obs.params)
    IN  {i \in 1..Len(strategies) : Serves(fs, strategies[i], t)}

\* What the first candidate that can answer yields.
FirstAnswer(obs, fs, t) ==
    LET strategies == buildCacheStrategies(obs.endpoint, obs.params)
        w == CHOOSE i \in Winners(obs, fs, t) : \A j \in Winners(obs, fs, t) : i <= j
    IN  ExtractFunc(strategies[w], fs[strategies[w].CacheKey].entry.Data, <<>>).data

\* A Get that is not stopped by the disabled-cache gate.
GetThroughGate ==
    /\ GetStep
    /\ enabled \/ last'.endpoint \in FullEndpoints

\* C22: Get tries the candidates strictly in list order, and a candidate
\* that is absent, corrupt, expired, or present but whose extractor fails
\* does not end the search: the answer is that of the first candidate that
\* is unexpired and whose extractor succeeds, and only when every candidate
\* fails does Get return not-found.
C22_SearchContinues ==
    [][GetThroughGate
         => IF Winners(last', files, now) = {}
            THEN ~last'.found /\ last'.data = NoData
            ELSE last'.found /\ last'.data = FirstAnswer(last', files, now)]_vars

\* A release request answered from the full catalog: the release entry is
\* absent and the product entry is valid but does not list the release.
C22_Witness ==
    /\ last.op = "Get"
    /\ last.at = now
    /\ enabled
    /\ ReqOf(last) = ProductRelease(go, v1_23)
    /\ KeyOf(last) \notin DOMAIN files
    /\ IsValid(files, KeyOf(Product(go)), now)
    /\ files[KeyOf(Product(go))].entry.Data = productDataOld
    /\ ~extractReleaseFromProduct(productDataOld, v1_23).found
    /\ IsValid(files, KeyOf(productsFull), now)
    /\ last.found
    /\ Field(last.data, "result") = releaseMap(v1_23)

\* The file named k is the only file of the directory and holds an unexpired
\* entry.
SingleEntry(k) == DOMAIN files = {k} /\ IsValid(files, k, now)

\* The elements of the list held in field k of an object (none if the field
\* is no list).
ElementsOf(v, k) == IF IsArr(Field(v, k)) THEN Range(Field(v, k).arr) ELSE {}

\* The release list of a product names the release r or its normalization.
ListsRelease(product, r) ==
    \E rel \in ElementsOf(product, "releases") :
        Field(rel, "name") \in {JStr(r), JStr(MajorMinorOf(r))}

\* A full-catalog payload has the expected shape and contains the piece the
\* request asks for.
CatalogContains(obs, doc) ==
    /\ IsArr(Field(doc, "result"))
    /\ IsProductRequest(obs)
          => \E p \in ElementsOf(doc, "result") : Field(p, "name") = JStr(obs.params[1])
    /\ IsReleaseRequest(obs)
          => \E p \in ElementsOf(doc, "result") :
                /\ Field(p, "name") = JStr(obs.params[1])
                /\ ListsRelease(p, obs.params[2])
    /\ (IsSelectionRequest(obs) /\ obs.params[1] = <<"category">>)
          => \E p \in ElementsOf(doc, "result") : Field(p, "category") = JStr(obs.params[2])
    /\ (IsSelectionRequest(obs) /\ obs.params[1] = <<"tag">>)
          => \E p \in ElementsOf(doc, "result") : JStr(obs.params[2]) \in ElementsOf(p, "tags")

\* A product payload has the expected shape and lists the release asked for.
ProductContains(obs, doc) ==
    /\ IsObj(Field(doc, "result"))
    /\ ListsRelease(Field(doc, "result"), obs.params[2])

\* C23: every extractor returns success = false when the cached payload does
\* not contain the sought piece (a product name not in the catalog, a release
\* name not in the product's list, a category no catalog product has, a tag
\* no catalog product carries, a result field of another shape), and Get,
\* with no other entry present, returns not-found.
C23_ExtractorMiss ==
    [][GetStep
         => /\ ( /\ SingleEntry(KeyOf(productsFull))
                 /\ DerivedFromCatalog(last') \/ IsReleaseRequest(last')
                 /\ ~CatalogContains(last', Catalog) )
                  => (~last'.found /\ last'.data = NoData)
            /\ ( /\ IsReleaseRequest(last')
                 /\ SingleEntry(KeyOf(Product(last'.params[1])))
                 /\ ~ProductContains(last', files[KeyOf(Product(last'.params[1]))].entry.Data) )
                  => (~last'.found /\ last'.data = NoData)]_vars

\* The release list names both the requested string r and, as another entry,
\* the major.minor normalization of r.
ListsBoth(product, r) ==
    /\ MajorMinorOf(r) # r
    /\ \E rel \in ElementsOf(product, "releases") : Field(rel, "name") = JStr(r)
    /\ \E rel \in ElementsOf(product, "releases") : Field(rel, "name") = JStr(MajorMinorOf(r))

\* C24: release match policy is exact first, then normalized.  When the
\* release list (of the product entry, or of the product in the full catalog)
\* holds both an entry named r and an entry named the major.minor
\* normalization of r, release extraction returns the entry named r, whatever
\* the order of the two entries in the list.
C24_ExactBeforeNormalized ==
    [][(GetStep /\ IsReleaseRequest(last'))
         => /\ ( /\ SingleEntry(KeyOf(Product(last'.params[1])))
                 /\ ListsBoth(Field(files[KeyOf(Product(last'.params[1]))].entry.Data,
                                    "result"), last'.params[2]) )
                  => /\ last'.found
                     /\ Field(Field(last'.data, "result"), "name") = JStr(last'.params[2])
            /\ ( /\ SingleEntry(KeyOf(productsFull))
                 /\ \E p \in ElementsOf(Catalog, "result") :
                       /\ Field(p, "name") = JStr(last'.params[1])
                       /\ ListsBoth(p, last'.params[2]) )
                  => /\ last'.found
                     /\ Field(Field(last'.data, "result"), "name") = JStr(last'.params[2])]_vars

\* A Get answered from the full catalog: the request's own entry cannot
\* serve it, and the catalog is an unexpired entry whose result is a list.
GetDerivedFromCatalog ==
    /\ GetStep
    /\ enabled
    /\ ~IsValid(files, KeyOf(last'), now)
    /\ IsValid(files, KeyOf(productsFull), now)
    /\ IsArr(Field(Catalog, "result"))

\* The non-empty category values (tag values) that occur in a catalog.
CategoryValues(doc) ==
    {Field(p, "category").str :
        p \in {q \in ElementsOf(doc, "result") :
                  IsStr(Field(q, "category")) /\ Field(q, "category") # JStr(<<>>)}}

TagValues(doc) ==
    UNION {{tag.str : tag \in {u \in ElementsOf(p, "tags") : IsStr(u) /\ u # JStr(<<>>)}} :
              p \in ElementsOf(doc, "result")}

\* C25: the category list (the tag list) derived from the full catalog
\* contains each distinct non-empty category value (tag value) occurring in
\* the catalog exactly once and no other value, and its total field equals
\* the number of distinct values.
C25_DistinctValues ==
    [][GetDerivedFromCatalog
         => /\ ReqOf(last') = Categories
                  => (last'.found /\ ListsExactly(last'.data, CategoryValues(Catalog)))
            /\ ReqOf(last') = Tags
                  => (last'.found /\ ListsExactly(last'.data, TagValues(Catalog)))]_vars

\* The tag list derived from a catalog whose only tagged product carries an
\* empty tag and the tag scripting twice: the one value scripting.
C25_Witness ==
    /\ last.op = "Get"
    /\ ReqOf(last) = Tags
    /\ SingleEntry(KeyOf(productsFull))
    /\ Catalog = catalogOf(<<redisMap, pythonOdd>>)
    /\ last.found
    /\ Field(last.data, "total") = JNum(1)
    /\ NamesOf(Field(last.data, "result").arr) = <<scripting>>

\* The catalog products a list request selects, in catalog order.
SelectedProducts(obs, doc) ==
    IF ReqOf(obs) = Products
    THEN SelectSeq(Field(doc, "result").arr, IsObj)
    ELSE IF obs.params[1] = <<"category">>
    THEN SelectSeq(Field(doc, "result").arr,
                   LAMBDA p : Field(p, "category") = JStr(obs.params[2]))
    ELSE SelectSeq(Field(doc, "result").arr,
                   LAMBDA p : JStr(obs.params[2]) \in ElementsOf(p, "tags"))

\* C26: product-list, products-by-category and products-by-tag results
\* derived from the full catalog contain exactly the catalog products the
\* request selects (all; category equal; tag in the product's tag list), in
\* catalog order, and the total field equals the number of items.
C26_SelectedInOrder ==
    [][(GetDerivedFromCatalog /\ (ReqOf(last') = Products \/ IsSelectionRequest(last')))
         => /\ last'.found
            /\ SummarizesExactly(last'.data, SelectedProducts(last', Catalog))]_vars

\* The products of category lang derived from the catalog of three products:
\* go and python, in that order, without redis.
C26_Witness ==
    /\ last.op = "Get"
    /\ ReqOf(last) = ProductsByCategory(lang)
    /\ SingleEntry(KeyOf(productsFull))
    /\ Catalog = fullProductsData
    /\ last.found
    /\ Field(last.data, "total") = JNum(2)
    /\ NamesOf(Field(last.data, "result").arr) = <<go, python>>

\* The path segment of the URIs of a derived list.
SegmentOf(obs) ==
    IF ReqOf(obs) = Categories THEN "categories"
    ELSE IF ReqOf(obs) = Tags THEN "tags"
    ELSE "products"

\* What an item of a derived list holds besides its URI comes from the
\* catalog: a name for a category or a tag, the product's own fields for a
\* product summary.
ItemFromCatalog(obs, item, i) ==
    IF ReqOf(obs) \in {Categories, Tags}
    THEN DOMAIN item.obj = {"name", "uri"}
    ELSE \A k \in DOMAIN item.obj \ {"uri"} :
            item.obj[k] = Field(SelectedProducts(obs, Catalog)[i], k)

\* C27: every item of a list derived from the full catalog carries a URI
\* built from the manager's configured base URL: base + "/products/" + name
\* for product summaries, base + "/categories/" + value for categories and
\* base + "/tags/" + value for tags; the base URL enters nothing else.
C27_URIFromBaseURL ==
    [][(GetDerivedFromCatalog
          /\ (ReqOf(last') \in {Products, Categories, Tags} \/ IsSelectionRequest(last')))
         => /\ last'.found
            /\ \A i \in 1..Len(Field(last'.data, "result").arr) :
                  LET item == Field(last'.data, "result").arr[i]
                  IN  /\ Field(item, "uri")
                            = JStr(baseURL \o <<"/", SegmentOf(last'), "/">>
                                     \o Field(item, "name").str)
                      /\ ItemFromCatalog(last', item, i)
            /\ Field(last'.data, "schema_version") = Field(Catalog, "schema_version")]_vars

\* The product list derived under a manager configured with another base
\* URL: the URI of go starts with that URL.
C27_Witness ==
    /\ last.op = "Get"
    /\ ReqOf(last) = Products
    /\ baseURL = customBaseURL
    /\ baseURL # DefaultBaseURL
    /\ SingleEntry(KeyOf(productsFull))
    /\ Catalog = fullProductsData
    /\ last.found
    /\ Field(Field(last.data, "result").arr[1], "uri")
          = JStr(<<"https://custom.api.example.com/v2", "/", "products", "/", "go">>)

\* A Get or a Set on an endpoint other than the full catalog while caching
\* is disabled.
DisabledCall ==
    /\ GetStep \/ SetStep
    /\ ~enabled
    /\ ~enabled'
    /\ last'.endpoint \notin FullEndpoints

\* C28: with caching disabled, Get on any endpoint other than the full
\* catalog returns not-found and deletes no file, also when a valid
\* full-catalog entry from which the answer could be derived is present and
\* when the entry of the requested key has expired; Set on such an endpoint
\* writes nothing and does not create the cache directory.
C28_DisabledTouchesNothing ==
    [][DisabledCall
         => /\ UNCHANGED <<files, dirExists>>
            /\ last'.removed = {}
            /\ last'.err = "nil"
            /\ GetStep => (~last'.found /\ last'.data = NoData)]_vars

\* A Get of the product list under a disabled manager: not-found, although
\* the full catalog is cached and valid, and the expired product-list entry
\* of an earlier run is still there.
C28_Witness ==
    /\ ~enabled
    /\ last.op = "Get"
    /\ last.at = now
    /\ ReqOf(last) = Products
    /\ ~last.found
    /\ IsValid(files, KeyOf(productsFull), now)
    /\ extractProductsFromFull(files[KeyOf(productsFull)].entry.Data).found
    /\ IsEntry(files, KeyOf(Products))
    /\ now > files[KeyOf(Products)].entry.ExpiresAt

\* The positions of the request's candidates that Get probes: those up to
\* the first one that can answer, all of them when none can.
Probed(obs, fs, t) ==
    LET n == Len(buildCacheStrategies(obs.endpoint, obs.params))
    IN  {i \in 1..n : \A j \in Winners(obs, fs, t) : i <= j}

\* C30: Get deletes a file only when that file is one of the request's
\* candidate keys, was probed before any candidate hit, and holds a readable
\* entry whose expiresAt has passed; it never deletes an unexpired entry, a
\* corrupt file, or a candidate that comes after the winning one; every file
\* it does not delete is unchanged.
C30_LazyDeletion ==
    [][GetStep
         => LET strategies == buildCacheStrategies(last'.endpoint, last'.params)
            IN  /\ DOMAIN files' = DOMAIN files \ last'.removed
                /\ \A n \in DOMAIN files' : files'[n] = files[n]
                /\ \A n \in last'.removed :
                      /\ IsEntry(files, n)
                      /\ now > files[n].entry.ExpiresAt
                      /\ \E i \in Probed(last', files, now) :
                            /\ strategies[i].CacheKey = n
                            /\ i \notin Winners(last', files, now)]_vars

\* A release request that found its own entry expired, deleted it, and was
\* answered from the product entry, while the expired full catalog, the
\* candidate after the winning one, stays.
C30_Witness ==
    /\ last.op = "Get"
    /\ last.at = now
    /\ ReqOf(last) = ProductRelease(go, v1_23)
    /\ last.removed = {KeyOf(last)}
    /\ last.found
    /\ IsValid(files, KeyOf(Product(go)), now)

\* s without the spaces at its two ends.
Trimmed(s) ==
    LET inked == {i \in 1..Len(s) : s[i] # " "}
    IN  IF inked = {} THEN <<>>
        ELSE SubSeq(s, CHOOSE i \in inked : \A j \in inked : i <= j,
                       CHOOSE i \in inked : \A j \in inked : j <= i)

\* The pieces of s between the occurrences of the letter sep.
RECURSIVE PiecesOf(_, _)
PiecesOf(s, sep) ==
    LET at == {i \in 1..Len(s) : s[i] = sep}
    IN  IF at = {} THEN <<s>>
        ELSE LET i == CHOOSE i \in at : \A j \in at : i <= j
             IN  <<SubSeq(s, 1, i - 1)>> \o PiecesOf(SubSeq(s, i + 1, Len(s)), sep)

IsNumber(s) == s # <<>> /\ \A i \in 1..Len(s) : s[i] \in Digit

\* A non-empty run of letters, digits, hyphens and dots.
IsIdentifier(s) == s # <<>> /\ \A i \in 1..Len(s) : s[i] \notin {"+", " ", "/", "|"}

\* s cut before its first hyphen or plus sign: <<numbers, suffix>>.
CutAtSuffix(s) ==
    LET at == {i \in 1..Len(s) : s[i] \in {"-", "+"}}
    IN  IF at = {} THEN <<s, <<>>>>
        ELSE LET i == CHOOSE i \in at : \A j \in at : i <= j
             IN  <<SubSeq(s, 1, i - 1), SubSeq(s, i, Len(s))>>

\* Nothing, -prerelease, +build, or -prerelease+build.
IsSuffix(r) ==
    \/ r = <<>>
    \/ /\ Head(r) = "+"
       /\ IsIdentifier(Tail(r))
    \/ /\ Head(r) = "-"
       /\ LET pieces == PiecesOf(Tail(r), "+")
          IN  /\ Len(pieces) \in {1, 2}
              /\ \A i \in 1..Len(pieces) : IsIdentifier(pieces[i])

\* s has the form major.minor.patch with an optional suffix.
IsMajorMinorPatch(s) ==
    LET cut == CutAtSuffix(s)
        numbers == PiecesOf(cut[1], ".")
    IN  /\ Len(numbers) = 3
        /\ \A i \in 1..3 : IsNumber(numbers[i])
        /\ IsSuffix(cut[2])

\* major.minor of a string of the form major.minor.patch[suffix].
MajorMinorPart(s) ==
    LET numbers == PiecesOf(CutAtSuffix(s)[1], ".")
    IN  numbers[1] \o <<".">> \o numbers[2]

\* C29: normalizeVersion maps a string of the form major.minor.patch,
\* optionally followed by a -prerelease and/or a +build suffix, surrounding
\* whitespace ignored, to major.minor, and returns every other string
\* (major.minor, v-prefixed, four-part, named, empty) unchanged apart from
\* trimming; normalizing its result again changes nothing.
C29_NormalizeVersion ==
    last.op = "normalizeVersion"
      => /\ last.ver = IF IsMajorMinorPatch(Trimmed(last.version))
                       THEN MajorMinorPart(Trimmed(last.version))
                       ELSE Trimmed(last.version)
         /\ normalizeVersion(last.ver) = last.ver

\* A padded version with a prerelease and build metadata, cut down to
\* major.minor.
C29_Witness ==
    /\ last.op = "normalizeVersion"
    /\ last.version = <<" ", "1", ".", "2", "4", ".", "6", "-", "rc", "+", "1", " ">>
    /\ last.ver = <<"1", ".", "2", "4">>

\* C31: Get never creates or modifies an entry file: every file present
\* after a Get was there before with the same contents, and the directory is
\* not created; an answer derived from a broader entry is not stored under
\* the exact key; a Get answers only from a candidate entry that is present
\* and unexpired, so the Get that was answered from a broader entry returns
\* not-found when it is repeated after that entry has expired or was cleared.
C31_GetNeverWrites ==
    [][GetStep
         => /\ DOMAIN files' \subseteq DOMAIN files
            /\ \A n \in DOMAIN files' : files'[n] = files[n]
            /\ UNCHANGED dirExists
            /\ (last'.found /\ ~IsValid(files, KeyOf(last'), now))
                  => ~IsEntry(files', KeyOf(last'))
            /\ last'.found => Winners(last', files, now) # {}
            /\ (/\ last.op = "Get"
                /\ last.found
                /\ ReqOf(last) = ReqOf(last')
                /\ \A k \in CandidateKeys(last') : Unservable(files, k, now))
                  => ~last'.found]_vars

\* The product request finds the catalog it could be answered from expired:
\* not-found, and no entry under its own key.
C31_Witness ==
    /\ last.op = "Get"
    /\ last.at = now
    /\ ReqOf(last) = Product(go)
    /\ ~last.found
    /\ last.removed = {KeyOf(productsFull)}
    /\ KeyOf(last) \notin DOMAIN files

\* The entries of the directory whose expiresAt has passed at time t.
PastExpiry(fs, t) == {n \in DOMAIN fs : IsEntry(fs, n) /\ t > fs[n].entry.ExpiresAt}

\* The entries of the directory whose expiresAt has not passed at time t.
WithinExpiry(fs, t) == {n \in DOMAIN fs : IsEntry(fs, n) /\ t <= fs[n].entry.ExpiresAt}

\* The file names of the entries of the requests.
ExpiryKeys == [req \in ExpiryRequests |-> KeyOf(req)]

\* What Get, ClearExpired and GetStats make of the directory at this instant:
\* Get serves the entry of a request exactly when ClearExpired would keep it,
\* and GetStats counts as expired exactly the entries ClearExpired would
\* remove.
ThreeAgree ==
    LET kept == DOMAIN clearExpiredLoop(ReadDir(files), 1, files, now, "nil").files
        stats == getStatsLoop(ReadDir(files), 1, files, now,
                              [TotalSize |-> 0, TotalFiles |-> 0,
                               ExpiredFiles |-> 0, ValidFiles |-> 0], "nil").stats
    IN  /\ \A req \in ExpiryRequests :
              (IsEntry(files, ExpiryKeys[req]) /\ (enabled \/ req.endpoint \in FullEndpoints))
                 => /\ cmGet(files, req, now, <<>>).found <=> ExpiryKeys[req] \in kept
                    /\ ExpiryKeys[req] \in kept
                          <=> now <= files[ExpiryKeys[req]].entry.ExpiresAt
        /\ stats.ExpiredFiles = Cardinality(DOMAIN files \ kept)
        /\ stats.ValidFiles = Cardinality({n \in kept : IsEntry(files, n)})

\* What one call of Get, Set, ClearExpired or GetStats does at the boundary.
BoundaryStep ==
    /\ (/\ GetStep
        /\ enabled \/ last'.endpoint \in FullEndpoints
        /\ IsEntry(files, KeyOf(last')))
          => LET entry == files[KeyOf(last')].entry
             IN  /\ last'.found <=> now <= entry.ExpiresAt
                 /\ last'.found => (last'.data = entry.Data /\ last'.removed = {})
                 /\ ~last'.found => last'.removed = {KeyOf(last')}
                 /\ entry.ExpiresAt = entry.Timestamp
                       => (last'.found <=> now = entry.Timestamp)
                 /\ entry.ExpiresAt < entry.Timestamp => ~last'.found
    /\ (/\ SetStep
        /\ enabled
        /\ last'.endpoint \notin FullEndpoints)
          => /\ files'[KeyOf(last')].entry.Timestamp = now
             /\ files'[KeyOf(last')].entry.ExpiresAt = now + defaultTTL
    /\ ClearExpiredStep => last'.removed = PastExpiry(files, now)
    /\ GetStatsStep
          => /\ last'.stats.ExpiredFiles = Cardinality(PastExpiry(files, now))
             /\ last'.stats.ValidFiles = Cardinality(WithinExpiry(files, now))

StoringSet ==
    /\ SetStep
    /\ last'.err = "nil"
    /\ enabled \/ last'.endpoint \in FullEndpoints

GetStatsAfterClear ==
    /\ GetStatsStep
    /\ last.op = "Clear"
    /\ last.err = "nil"

\* C34: Clear and GetStats agree on what a cache file is: every file GetStats
\* counts in TotalFiles is a file a successful Clear removes, so right after
\* a successful Clear, GetStats reports TotalFiles = 0 and TotalSize = 0
\* whatever else the directory contains.
C34_ClearThenEmptyStats ==
    [][GetStatsAfterClear
         => /\ last'.stats.TotalFiles = 0
            /\ last'.stats.TotalSize = 0]_vars

\* The directories NewCacheManager chooses when it is given no directory.
DefaultDirs ==
    {defaultBaseDir(homeDir, homeErr, goos) :
        homeDir \in HomeDirs, homeErr \in BOOLEAN, goos \in GOOS}

\* C35: every default cache directory NewCacheManager chooses when given an
\* empty base directory (Windows, macOS, other systems, and the fallback
\* used when the home directory cannot be determined) has a final path
\* component in Clear's allow-list, so Clear never refuses on a
\* default-configured manager and removes its entry files.
C35_DefaultsClearable ==
    /\ [](baseDir \in DefaultDirs
            => Base(baseDir) \in {<<".eol-cache">>, <<"eol-cache">>, <<"eol">>})
    /\ [][(ClearStep /\ baseDir \in DefaultDirs)
            => /\ last'.err = "nil"
               /\ \A n \in DOMAIN files' :
                     ~HasSuffix(n, <<".", "eol_cache", ".", "json">>)]_vars

\* Clear on the default directory of macOS has removed an entry.
C35_Witness ==
    /\ last.op = "Clear"
    /\ last.err = "nil"
    /\ last.removed # {}
    /\ baseDir = <<"/", "home", "/", "u", "/", "Library", "/", "Caches", "/", "eol">>

\* The files a step created or changed.
Written == {n \in DOMAIN files' : n \notin DOMAIN files \/ files'[n] # files[n]}

\* The request the last doRequest of a client operation was made for: for a
\* release, the request of the last variant tried.
LastRequested(obs) ==
    IF IsReleaseRequest(obs) /\ obs.tried # <<>>
    THEN ProductRelease(obs.params[1], obs.tried[Len(obs.tried)])
    ELSE ReqOf(obs)

\* The documents the client decodes from the 200 responses of the API.
DecodedResponses ==
    {Unmarshal(responseKind(req), apiBody(req, "200")).value :
        req \in ClientRequests \cup {ProductRelease(go, <<"1">>)}}

\* C36: doRequest writes a cache entry only after a 200 response whose body
\* decoded, and then under the key of the requested endpoint and parameters;
\* a transport error, a non-200 status or a decode failure writes nothing, so
\* every entry in the cache holds a decoded 200 response, never an error
\* response.
C36_OnlyGoodResponsesCached ==
    /\ [](\A n \in DOMAIN files :
             IsEntry(files, n) => files[n].entry.Data \in DecodedResponses)
    /\ [][ClientStep
            => /\ Written # {}
                  => /\ last'.answers # <<>>
                     /\ last'.answers[Len(last'.answers)] = "200"
                     /\ last'.fetched # NoData
                     /\ Written = {KeyOf(LastRequested(last'))}
               /\ (/\ last'.answers # <<>>
                   /\ last'.answers[Len(last'.answers)] # "200")
                  => /\ Written = {}
                     /\ last'.err # "nil"
                     /\ UNCHANGED dirExists]_vars

\* The product was fetched with status 200, decoded, and stored under the
\* key of the request.
C36_Witness ==
    /\ last.op = "Client"
    /\ last.at = now
    /\ ReqOf(last) = Product(go)
    /\ last.answers = <<"200">>
    /\ last.err = "nil"
    /\ IsEntry(files, KeyOf(last))
    /\ files[KeyOf(last)].entry.Timestamp = now
    /\ files[KeyOf(last)].entry.Data = last.fetched

\* C37: under any interleaving of a Get in one process with a Set of the
\* same key in another process on the same cache directory, the deletion of
\* Get's lazy expiry never removes an entry that is unexpired at the moment
\* it is removed, and Get returns either not-found or one complete stored
\* payload, never a partial one.
C37_RaceSafety ==
    [][/\ \A n \in DOMAIN files \ DOMAIN files' :
             ~(IsEntry(files, n) /\ now <= files[n].entry.ExpiresAt)
       /\ (last'.op = "Get" /\ last'.pc = "return" /\ last'.found)
             => last'.data \in RacePayloads]_vars

====
